---- MODULE Spec2Model ----
(***************************************************************************)
(* The execution engine of the BirlScript virtual machine (src/birl/src/   *)
(* vm.rs): the heap of reference-counted special items, the call stack of  *)
(* function frames, the register file and the instruction interpreter.     *)
(*                                                                         *)
(* Conventions.  Rust vectors are modelled as TLA+ sequences, so a Rust    *)
(* index i is position i + 1 here: frame indexes returned by the helper    *)
(* operators are positions in callstack (0 stands for None), a slot        *)
(* address a is stack[a + 1], function id f is code[f + 1] and program     *)
(* counter pc fetches code[f + 1][pc + 1].  A fallible Rust function       *)
(* Result<T, String> becomes a record with the VM it leaves behind and a   *)
(* status; a panic (index out of bounds, division by zero, unbounded       *)
(* recursion) is the status "Panic", after which nothing runs.             *)
(***************************************************************************)
EXTENDS Integers, Sequences, FiniteSets, TLC

VARIABLES
    registers,              \* VirtualMachine.registers
    callstack,              \* VirtualMachine.callstack
    special_storage,        \* VirtualMachine.special_storage
    plugin_argument_stack,  \* VirtualMachine.plugin_argument_stack
    code,                   \* VirtualMachine.code
    plugins,                \* VirtualMachine.plugins
    stdout,                 \* VirtualMachine.stdout: "none", "ok" or "fail"
    stdin,                  \* VirtualMachine.stdin: "none", "line", "eof" or "fail"
    trace                   \* one record per call of execute_next_instruction

vars == <<registers, callstack, special_storage, plugin_argument_stack,
          code, plugins, stdout, stdin, trace>>

\* ------------------------------------------------------------------ bounds

\* Calls of execute_next_instruction in one behaviour of each specification.
StepsSkip == 5
\* Instructions run in a program over HeapInstructions.
StepsHeap == 5
StepsWrite == 5
StepsLoop == 6
StepsLoopFrames == 7
StepsListOps == 4
\* Calls of the storage in one behaviour of SpecStorage.
StepsStorage == 6
\* Instructions run in a program of SpecWide.
StepsWide == 4
\* Instructions run in a program over ReturnInstructions.
StepsReturn == 5
\* Instructions run in a program over CallInstructions.
StepsCall == 6
\* Instructions run in a program of SpecList.
StepsList == 6
\* Instructions run in a program of SpecCompare.
StepsCompare == 3
\* Instructions run in a program of SpecArith.
StepsArith == 4
\* Instructions run in a program of SpecPlugin.
StepsPlugin == 6
\* Instructions run in a program of SpecIO.
StepsIO == 4
\* Instructions run in a program of SpecIf.
StepsIf == 2
\* Slots of a frame (the embedder's stack size; the program's default is 128).
StackSize == 2
\* Functions registered with add_new_code before the program starts.
NumFuncs == 2
\* Depth at which a recursive walk over list contents is taken to be unbounded.
MaxDepth == 6
\* The texts that parse as integers are the numerals up to this one.
ParseRange == 3

\* ------------------------------------------------------------------ values

Null == [t |-> "Null", v |-> 0]
Integer(i) == [t |-> "Integer", v |-> i]
Number(n) == [t |-> "Number", v |-> n]
Text(h) == [t |-> "Text", v |-> h]
List(h) == [t |-> "List", v |-> h]

IsSpecial(val) == val.t \in {"Text", "List"}

RawNull == [t |-> "Null", v |-> 0, s |-> ""]
RawInteger(i) == [t |-> "Integer", v |-> i, s |-> ""]
RawNumber(n) == [t |-> "Number", v |-> n, s |-> ""]
RawText(s) == [t |-> "Text", v |-> 0, s |-> s]

TextData(s) == [kind |-> "Text", text |-> s, list |-> <<>>]
ListData(l) == [kind |-> "List", text |-> "", list |-> l]

MinOf(S) == CHOOSE x \in S : \A y \in S : x <= y
MaxOf(S) == CHOOSE x \in S : \A y \in S : x >= y
RemoveAt(s, i) == SubSeq(s, 1, i - 1) \o SubSeq(s, i + 1, Len(s))
InsertAt(s, i, e) == SubSeq(s, 1, i - 1) \o <<e>> \o SubSeq(s, i, Len(s))

\* ---------------------------------------------------------- SpecialStorage

SpecialStorage_new == [items |-> <<>>, next_item_id |-> 0]

\* Position of the first item with this id, 0 when there is none.
get_ref(ss, id) ==
    LET S == {i \in 1..Len(ss.items) : ss.items[i].item_id = id}
    IN IF S = {} THEN 0 ELSE MinOf(S)

get_data_ref(ss, id) == get_ref(ss, id)

\* add that numbers the new item by its position in items.
add_numbered_by_position(ss, data, ref_count) ==
    [ss |-> [items |-> Append(ss.items,
                              [data |-> data,
                               item_id |-> Len(ss.items),
                               ref_count |-> ref_count]),
             next_item_id |-> ss.next_item_id + 1],
     id |-> Len(ss.items)]

add(ss, data, ref_count) ==
    [ss |-> [items |-> Append(ss.items,
                              [data |-> data,
                               item_id |-> ss.next_item_id,
                               ref_count |-> ref_count]),
             next_item_id |-> ss.next_item_id + 1],
     id |-> ss.next_item_id]

\* decrement_ref that removes an item only when its count is already 0.
decrement_ref_removing_at_zero(ss, id) ==
    LET i == get_ref(ss, id)
    IN IF i = 0 THEN ss
       ELSE IF ss.items[i].ref_count < 1
            THEN [ss EXCEPT !.items = RemoveAt(@, i)]
            ELSE [ss EXCEPT !.items[i].ref_count = @ - 1]

decrement_ref(ss, id) ==
    LET i == get_ref(ss, id)
    IN IF i = 0 THEN ss
       ELSE IF ss.items[i].ref_count <= 1
            THEN [ss EXCEPT !.items = RemoveAt(@, i)]
            ELSE [ss EXCEPT !.items[i].ref_count = @ - 1]

increment_ref(ss, id) ==
    LET i == get_ref(ss, id)
    IN IF i = 0 THEN [ss |-> ss, ok |-> FALSE]
       ELSE [ss |-> [ss EXCEPT !.items[i].ref_count = @ + 1], ok |-> TRUE]

\* ------------------------------------------------------ frames, registers

LoopLabel_new(start_pc) ==
    [start_pc |-> start_pc, has_index |-> FALSE, index_address |-> 0,
     stepping |-> Null]

FunctionFrame_new(id, stack_size) ==
    [id |-> id,
     stack |-> [i \in 1..stack_size |-> Null],
     program_counter |-> 0,
     last_comparision |-> "None",
     next_address |-> 0,
     ready |-> FALSE,
     skip_level |-> 0,
     stack_size |-> stack_size,
     num_special_items |-> 0,
     label_stack |-> <<>>]

Registers_default ==
    [math_a |-> Null,
     math_b |-> Null,
     secondary |-> Null,
     intermediate |-> Null,
     first_operation |-> FALSE,
     default_stack_size |-> StackSize,
     has_quit |-> FALSE,
     is_interactive |-> FALSE,
     next_code_index |-> 0,
     next_plugin_index |-> 0]

\* The VirtualMachine value the operators below take and return.
VM == [registers |-> registers,
       callstack |-> callstack,
       special_storage |-> special_storage,
       plugin_argument_stack |-> plugin_argument_stack,
       code |-> code,
       plugins |-> plugins,
       stdout |-> stdout,
       stdin |-> stdin]

Res(vm, st) == [vm |-> vm, st |-> st]
Ok(vm) == [vm |-> vm, st |-> "Normal"]
Err(vm) == [vm |-> vm, st |-> "Err"]
Panic(vm) == [vm |-> vm, st |-> "Panic"]
Failed(r) == r.st \in {"Err", "Panic"}

\* Position of the topmost ready frame, 0 when there is none.
get_last_ready_ref(vm) ==
    LET S == {i \in 1..Len(vm.callstack) : vm.callstack[i].ready}
    IN IF S = {} THEN 0 ELSE MaxOf(S)

\* get_last_ready_mut that gives the bottommost ready frame.
get_first_ready_mut(vm) ==
    LET S == {i \in 1..Len(vm.callstack) : vm.callstack[i].ready}
    IN IF S = {} THEN 0 ELSE MinOf(S)

get_last_ready_mut(vm) == get_last_ready_ref(vm)

get_current_skip_level(vm) ==
    LET f == get_last_ready_ref(vm)
    IN IF f = 0 THEN 0 ELSE vm.callstack[f].skip_level

\* Looks at the top frame only: the top when ready, else the one below it.
get_last_ready_index(vm) ==
    LET n == Len(vm.callstack)
    IN IF n = 0 THEN 0
       ELSE IF n < 2 THEN (IF vm.callstack[1].ready THEN 1 ELSE 0)
       ELSE IF vm.callstack[n].ready THEN n ELSE n - 1

get_current_pc(vm) ==
    LET f == get_last_ready_ref(vm)
    IN IF f = 0 THEN -1 ELSE vm.callstack[f].program_counter

get_current_id(vm) ==
    LET f == get_last_ready_ref(vm)
    IN IF f = 0 THEN -1 ELSE vm.callstack[f].id

increment_pc(vm) ==
    LET f == get_last_ready_mut(vm)
    IN IF f = 0 THEN Err(vm)
       ELSE Ok([vm EXCEPT !.callstack[f].program_counter = @ + 1])

set_current_pc(vm, pc) ==
    LET f == get_last_ready_mut(vm)
    IN IF f = 0 THEN Err(vm)
       ELSE Ok([vm EXCEPT !.callstack[f].program_counter = pc])

increase_skip_level(vm) ==
    LET f == get_last_ready_mut(vm)
    IN IF f = 0 THEN Err(vm)
       ELSE Ok([vm EXCEPT !.callstack[f].skip_level = @ + 1])

decrease_skip_level(vm) ==
    LET f == get_last_ready_mut(vm)
    IN IF f = 0 THEN Err(vm)
       ELSE Ok([vm EXCEPT !.callstack[f].skip_level = @ - 1])

\* frame_index is a position in callstack.
add_special_item(vm, frame_index, data) ==
    IF Len(vm.callstack) < frame_index
    THEN [vm |-> vm, ok |-> FALSE, id |-> 0]
    ELSE LET a == add(vm.special_storage, data, 0)
         IN [vm |-> [vm EXCEPT
                       !.callstack[frame_index].num_special_items = @ + 1,
                       !.special_storage = a.ss],
             ok |-> TRUE, id |-> a.id]

\* write_to that leaves the reference count of the value it overwrites.
write_to_keeping_old(vm, val, stack_index, address) ==
    IF Len(vm.callstack) < stack_index THEN Err(vm)
    ELSE LET frame == vm.callstack[stack_index]
         IN IF Len(frame.stack) <= address THEN Err(vm)
            ELSE LET inc == IF IsSpecial(val)
                            THEN increment_ref(vm.special_storage, val.v)
                            ELSE [ss |-> vm.special_storage, ok |-> TRUE]
                 IN IF ~inc.ok THEN Err(vm)
                    ELSE Ok([vm EXCEPT
                               !.special_storage = inc.ss,
                               !.callstack[stack_index].stack[address + 1] = val])

\* stack_index is a position in callstack, address a slot address.
write_to(vm, val, stack_index, address) ==
    IF Len(vm.callstack) < stack_index THEN Err(vm)
    ELSE LET frame == vm.callstack[stack_index]
         IN IF Len(frame.stack) <= address THEN Err(vm)
            ELSE LET old == frame.stack[address + 1]
                     ss1 == IF IsSpecial(old)
                            THEN decrement_ref(vm.special_storage, old.v)
                            ELSE vm.special_storage
                     inc == IF IsSpecial(val)
                            THEN increment_ref(ss1, val.v)
                            ELSE [ss |-> ss1, ok |-> TRUE]
                 IN IF ~inc.ok
                    THEN Err([vm EXCEPT !.special_storage = ss1])
                    ELSE Ok([vm EXCEPT
                               !.special_storage = inc.ss,
                               !.callstack[stack_index].stack[address + 1] = val])

\* index is a position in callstack.  The bound check of the source admits
\* the position one past the top, where the indexing then panics.
read_from_id(vm, index, address) ==
    IF Len(vm.callstack) < index - 1 THEN [st |-> "Err", val |-> Null]
    ELSE IF Len(vm.callstack) < index THEN [st |-> "Panic", val |-> Null]
    ELSE IF Len(vm.callstack[index].stack) <= address
         THEN [st |-> "Err", val |-> Null]
         ELSE [st |-> "Normal", val |-> vm.callstack[index].stack[address + 1]]

raw_to_dynamic(vm, raw) ==
    IF raw.t = "Text"
    THEN LET i == get_last_ready_index(vm)
             parent_index == IF i = 0 THEN 1 ELSE i
             a == add_special_item(vm, parent_index, TextData(raw.s))
         IN IF a.ok THEN [vm |-> a.vm, ok |-> TRUE, val |-> Text(a.id)]
            ELSE [vm |-> vm, ok |-> FALSE, val |-> Null]
    ELSE [vm |-> vm, ok |-> TRUE, val |-> [t |-> raw.t, v |-> raw.v]]

\* ------------------------------------------------- arithmetic, comparison

IsNumeric(val) == val.t \in {"Integer", "Number"}

is_compatible(left, right) ==
    CASE left.t = "Text" -> right.t = "Text"
      [] IsNumeric(left) -> IsNumeric(right)
      [] OTHER -> FALSE

\* The tag of a numeric result: Integer only for two Integers.
NumTag(left, right) ==
    IF left.t = "Integer" /\ right.t = "Integer" THEN "Integer" ELSE "Number"

Abs(x) == IF x < 0 THEN -x ELSE x
\* Rust's integer division truncates toward zero.
TruncDiv(a, b) ==
    IF (a < 0) = (b < 0) THEN Abs(a) \div Abs(b) ELSE -(Abs(a) \div Abs(b))

ValRes(vm, st, val) == [vm |-> vm, st |-> st, val |-> val]

add_values(vm, left, right) ==
    IF ~is_compatible(left, right) THEN ValRes(vm, "Err", Null)
    ELSE CASE IsNumeric(left) ->
                ValRes(vm, "Normal", [t |-> NumTag(left, right), v |-> left.v + right.v])
           [] left.t = "Text" ->
                LET ss == vm.special_storage
                    ri == get_data_ref(ss, right.v)
                    li == get_data_ref(ss, left.v)
                IN IF ri = 0 \/ ss.items[ri].data.kind # "Text" THEN ValRes(vm, "Err", Null)
                   ELSE IF li = 0 \/ ss.items[li].data.kind # "Text" THEN ValRes(vm, "Err", Null)
                   ELSE LET left_v == ss.items[ri].data.text
                            right_v == ss.items[li].data.text
                            result == IF vm.registers.first_operation
                                      THEN right_v \o left_v
                                      ELSE left_v \o right_v
                            vm1 == [vm EXCEPT !.registers.first_operation = FALSE]
                            parent_index == get_last_ready_index(vm1)
                        IN IF parent_index = 0 THEN ValRes(vm1, "Err", Null)
                           ELSE LET a == add_special_item(vm1, parent_index, TextData(result))
                                IN IF a.ok THEN ValRes(a.vm, "Normal", Text(a.id))
                                   ELSE ValRes(vm1, "Err", Null)
           [] left.t = "List" ->
                IF right.t # "List" THEN ValRes(vm, "Err", Null)
                ELSE LET ss == vm.special_storage
                         li == get_data_ref(ss, left.v)
                         ri == get_data_ref(ss, right.v)
                     IN IF li = 0 \/ ss.items[li].data.kind # "List" THEN ValRes(vm, "Err", Null)
                        ELSE IF ri = 0 \/ ss.items[ri].data.kind # "List" THEN ValRes(vm, "Err", Null)
                        ELSE LET data == ss.items[li].data.list \o ss.items[ri].data.list
                                 index == get_last_ready_index(vm)
                             IN IF index = 0 THEN ValRes(vm, "Err", Null)
                                ELSE LET a == add_special_item(vm, index, ListData(data))
                                     IN IF a.ok THEN ValRes(a.vm, "Normal", List(a.id))
                                        ELSE ValRes(vm, "Err", Null)
           [] OTHER -> ValRes(vm, "Normal", Null)

sub_values(vm, left, right) ==
    IF ~is_compatible(left, right) THEN ValRes(vm, "Err", Null)
    ELSE IF IsNumeric(left)
         THEN ValRes(vm, "Normal", [t |-> NumTag(left, right), v |-> left.v - right.v])
         ELSE IF left.t = "Null" THEN ValRes(vm, "Normal", Null)
         ELSE ValRes(vm, "Err", Null)

mul_values(vm, left, right) ==
    IF ~is_compatible(left, right) THEN ValRes(vm, "Err", Null)
    ELSE IF IsNumeric(left)
         THEN ValRes(vm, "Normal", [t |-> NumTag(left, right), v |-> left.v * right.v])
         ELSE IF left.t = "Null" THEN ValRes(vm, "Normal", Null)
         ELSE ValRes(vm, "Err", Null)

\* Only Integer / Integer is modelled: no alphabet of the model produces a
\* Number (f64), whose quotients the integers here cannot represent.
div_values(vm, left, right) ==
    IF ~is_compatible(left, right) THEN ValRes(vm, "Err", Null)
    ELSE CASE left.t = "Integer" /\ right.t = "Integer" ->
                IF right.v = 0 THEN ValRes(vm, "Panic", Null)
                ELSE ValRes(vm, "Normal", Integer(TruncDiv(left.v, right.v)))
           [] left.t = "Null" -> ValRes(vm, "Normal", Null)
           [] left.t \in {"Text", "List"} -> ValRes(vm, "Err", Null)

RECURSIVE compare(_, _, _, _)
RECURSIVE compare_elements(_, _, _, _, _)

\* The element-wise loop of compare over two lists of equal length, from
\* position i on.
compare_elements(ss, left_list, right_list, i, depth) ==
    IF i > Len(left_list) THEN "Equal"
    ELSE LET c == compare(ss, left_list[i], right_list[i], depth)
         IN IF c = "Equal"
            THEN compare_elements(ss, left_list, right_list, i + 1, depth)
            ELSE IF c \in {"Err", "Panic"} THEN c ELSE "NotEqual"

\* compare whose Null arm gives Equal whatever the right operand is.
compare_null_left_equal(ss, left, right, depth) ==
    CASE IsNumeric(left) ->
            IF ~IsNumeric(right) THEN "NotEqual"
            ELSE IF left.v = right.v THEN "Equal"
            ELSE IF left.v < right.v THEN "LessThan" ELSE "MoreThan"
      [] left.t = "Text" ->
            IF right.t # "Text" THEN "NotEqual"
            ELSE LET li == get_data_ref(ss, left.v)
                     ri == get_data_ref(ss, right.v)
                 IN IF li = 0 \/ ss.items[li].data.kind # "Text" THEN "Err"
                    ELSE IF ri = 0 \/ ss.items[ri].data.kind # "Text" THEN "Err"
                    ELSE LET ltext == ss.items[li].data.text
                             rtext == ss.items[ri].data.text
                         IN IF Len(ltext) > Len(rtext) THEN "MoreThan"
                            ELSE IF Len(ltext) < Len(rtext) THEN "LessThan"
                            ELSE IF ltext = rtext THEN "Equal" ELSE "NotEqual"
      [] left.t = "List" ->
            IF right.t # "List" THEN "NotEqual"
            ELSE LET li == get_data_ref(ss, left.v)
                     ri == get_data_ref(ss, right.v)
                 IN IF li = 0 \/ ss.items[li].data.kind # "List" THEN "Err"
                    ELSE IF ri = 0 \/ ss.items[ri].data.kind # "List" THEN "Err"
                    ELSE LET left_list == ss.items[li].data.list
                             right_list == ss.items[ri].data.list
                         IN IF Len(left_list) # Len(right_list) THEN "NotEqual"
                            ELSE IF depth >= MaxDepth THEN "Panic"
                            ELSE compare_elements(ss, left_list, right_list, 1, depth + 1)
      [] OTHER -> "Equal"

\* depth counts the nested calls; a list that contains itself recurses
\* without end in the source, which is the status "Panic" here.
compare(ss, left, right, depth) ==
    CASE IsNumeric(left) ->
            IF ~IsNumeric(right) THEN "NotEqual"
            ELSE IF left.v = right.v THEN "Equal"
            ELSE IF left.v < right.v THEN "LessThan" ELSE "MoreThan"
      [] left.t = "Text" ->
            IF right.t # "Text" THEN "NotEqual"
            ELSE LET li == get_data_ref(ss, left.v)
                     ri == get_data_ref(ss, right.v)
                 IN IF li = 0 \/ ss.items[li].data.kind # "Text" THEN "Err"
                    ELSE IF ri = 0 \/ ss.items[ri].data.kind # "Text" THEN "Err"
                    ELSE LET ltext == ss.items[li].data.text
                             rtext == ss.items[ri].data.text
                         IN IF Len(ltext) > Len(rtext) THEN "MoreThan"
                            ELSE IF Len(ltext) < Len(rtext) THEN "LessThan"
                            ELSE IF ltext = rtext THEN "Equal" ELSE "NotEqual"
      [] left.t = "List" ->
            IF right.t # "List" THEN "NotEqual"
            ELSE LET li == get_data_ref(ss, left.v)
                     ri == get_data_ref(ss, right.v)
                 IN IF li = 0 \/ ss.items[li].data.kind # "List" THEN "Err"
                    ELSE IF ri = 0 \/ ss.items[ri].data.kind # "List" THEN "Err"
                    ELSE LET left_list == ss.items[li].data.list
                             right_list == ss.items[ri].data.list
                         IN IF Len(left_list) # Len(right_list) THEN "NotEqual"
                            ELSE IF depth >= MaxDepth THEN "Panic"
                            ELSE compare_elements(ss, left_list, right_list, 1, depth + 1)
      [] OTHER -> IF right.t = "Null" THEN "Equal" ELSE "NotEqual"

get_last_comparision(vm) ==
    IF vm.callstack = <<>> THEN "None"
    ELSE vm.callstack[Len(vm.callstack)].last_comparision

\* set_last_comparision on the last ready frame.
set_last_comparision_of_ready(vm, comp) ==
    IF vm.callstack = <<>> \/ get_last_ready_ref(vm) = 0 THEN Err(vm)
    ELSE Ok([vm EXCEPT !.callstack[get_last_ready_ref(vm)].last_comparision = comp])

set_last_comparision(vm, comp) ==
    IF vm.callstack = <<>> THEN Err(vm)
    ELSE Ok([vm EXCEPT !.callstack[Len(vm.callstack)].last_comparision = comp])

\* last_comparision_matches for which LessOrEqual and MoreOrEqual are not
\* matched by Equal.
last_comparision_matches_strictly(vm, req) ==
    LET last == get_last_comparision(vm)
        B(b) == IF b THEN "TRUE" ELSE "FALSE"
    IN IF last = "None" THEN "Err"
       ELSE CASE req = "Equal" -> B(last = "Equal")
              [] req = "NotEqual" -> B(last # "Equal")
              [] req = "Less" -> B(last = "LessThan")
              [] req = "LessOrEqual" -> B(last = "LessThan")
              [] req = "More" -> B(last = "MoreThan")
              [] req = "MoreOrEqual" -> B(last = "MoreThan")

\* "Err" when there is no last comparison, else "TRUE" or "FALSE".
last_comparision_matches(vm, req) ==
    LET last == get_last_comparision(vm)
        B(b) == IF b THEN "TRUE" ELSE "FALSE"
    IN IF last = "None" THEN "Err"
       ELSE CASE req = "Equal" -> B(last = "Equal")
              [] req = "NotEqual" -> B(last # "Equal")
              [] req = "Less" -> B(last = "LessThan")
              [] req = "LessOrEqual" -> B(last = "LessThan" \/ last = "Equal")
              [] req = "More" -> B(last = "MoreThan")
              [] req = "MoreOrEqual" -> B(last = "MoreThan" \/ last = "Equal")

\* ---------------------------------------------------------------- output

\* vm_write!: no sink is success, a sink may fail.  What is written is not
\* kept.
vm_write(vm) == vm.stdout # "fail"

\* format!("{}", i) of an integer, and of an f64 without a fraction.
Format(i) == ToString(i)

\* str::parse of the decimal numerals of the integers up to ParseRange:
\* these parse to the integer, every other text of the model fails.
Parse(text) ==
    LET S == {i \in (-ParseRange)..ParseRange : Format(i) = text}
    IN IF S = {} THEN [ok |-> FALSE, v |-> 0]
       ELSE [ok |-> TRUE, v |-> CHOOSE i \in S : TRUE]

StrRes(st, s) == [st |-> st, s |-> s]

RECURSIVE conv_to_string(_, _, _)
RECURSIVE conv_list_items(_, _, _, _)

\* The loop of conv_to_string over the items of a list, from position i on.
conv_list_items(ss, list, i, depth) ==
    IF i > Len(list) THEN StrRes("Normal", "")
    ELSE LET c == conv_to_string(ss, list[i], depth)
             quote == IF list[i].t = "Text" THEN "\"" ELSE ""
             sep == IF i > 1 THEN ", " ELSE ""
         IN IF c.st # "Normal" THEN c
            ELSE LET rest == conv_list_items(ss, list, i + 1, depth)
                 IN IF rest.st # "Normal" THEN rest
                    ELSE StrRes("Normal", sep \o quote \o c.s \o quote \o rest.s)

\* depth counts the nested calls; a list that contains itself recurses
\* without end in the source, which is the status "Panic" here.
conv_to_string(ss, val, depth) ==
    CASE val.t = "Text" ->
            LET i == get_data_ref(ss, val.v)
            IN IF i = 0 \/ ss.items[i].data.kind # "Text" THEN StrRes("Err", "")
               ELSE StrRes("Normal", ss.items[i].data.text)
      [] IsNumeric(val) -> StrRes("Normal", Format(val.v))
      [] val.t = "Null" -> StrRes("Normal", "<Null>")
      [] val.t = "List" ->
            LET i == get_data_ref(ss, val.v)
            IN IF i = 0 \/ ss.items[i].data.kind # "List" THEN StrRes("Err", "")
               ELSE IF depth >= MaxDepth THEN StrRes("Panic", "")
               ELSE LET items == conv_list_items(ss, ss.items[i].data.list, 1, depth + 1)
                    IN IF items.st # "Normal" THEN items
                       ELSE StrRes("Normal", "[ " \o items.s \o " ]")

\* [ok, v]: the integer conv_to_int gives, or its failure.
conv_to_int(ss, val) ==
    CASE val.t = "Text" ->
            LET i == get_data_ref(ss, val.v)
            IN IF i = 0 \/ ss.items[i].data.kind # "Text" THEN [ok |-> FALSE, v |-> 0]
               ELSE Parse(ss.items[i].data.text)
      [] IsNumeric(val) -> [ok |-> TRUE, v |-> val.v]
      [] OTHER -> [ok |-> FALSE, v |-> 0]

\* The numbers of the model have no fraction, so that conv_to_num gives and
\* fails as conv_to_int does.
conv_to_num(ss, val) == conv_to_int(ss, val)

print_value(vm, val) ==
    LET c == conv_to_string(vm.special_storage, val, 0)
    IN IF c.st # "Normal" THEN Res(vm, c.st)
       ELSE IF vm_write(vm) THEN Ok(vm) ELSE Err(vm)

\* ------------------------------------------------------------ instructions

\* An Instruction: the opcode and its operands (a, b: addresses, ids and
\* counts; req: a ComparisionRequest; raw: a RawValue; kind: a TypeKind).
Ins(op) == [op |-> op, a |-> 0, b |-> 0, req |-> "Equal", raw |-> RawNull,
            kind |-> "Null"]
InsA(op, a) == [Ins(op) EXCEPT !.a = a]
InsAB(op, a, b) == [Ins(op) EXCEPT !.a = a, !.b = b]
ExecuteIf(req) == [Ins("ExecuteIf") EXCEPT !.req = req]
PushValMathA(raw) == [Ins("PushValMathA") EXCEPT !.raw = raw]
PushValMathB(raw) == [Ins("PushValMathB") EXCEPT !.raw = raw]
AssertMathBCompatible(kind) == [Ins("AssertMathBCompatible") EXCEPT !.kind = kind]
NoInstruction == Ins("None")

\* A registered plugin, by what it does with its arguments: "sum" adds up
\* Integer arguments and fails on any other; "first" gives back its first
\* argument and "last" its last one, or nothing when called with none.
RECURSIVE SumValues(_)
SumValues(args) ==
    IF args = <<>> THEN 0 ELSE args[1].v + SumValues(Tail(args))

plugin_call(kind, args, vm) ==
    CASE kind = "sum" ->
            IF \A i \in 1..Len(args) : args[i].t = "Integer"
            THEN ValRes(vm, "Some", Integer(SumValues(args)))
            ELSE ValRes(vm, "Err", Null)
      [] kind = "first" ->
            IF args = <<>> THEN ValRes(vm, "None", Null)
            ELSE ValRes(vm, "Some", args[1])
      [] kind = "last" ->
            IF args = <<>> THEN ValRes(vm, "None", Null)
            ELSE ValRes(vm, "Some", args[Len(args)])

run_PrintMathBDebug(vm) == print_value(vm, vm.registers.math_b)

\* run(Instruction::PrintMathBDebug) called from inside run: the skip check
\* at the top of run comes first.
run_nested_PrintMathBDebug(vm) ==
    IF get_current_skip_level(vm) > 0 THEN Ok(vm) ELSE run_PrintMathBDebug(vm)

\* Quit that sets has_quit and returns Normal.
run_Quit_returning_normal(vm) == Ok([vm EXCEPT !.registers.has_quit = TRUE])

run_Quit(vm) == Res([vm EXCEPT !.registers.has_quit = TRUE], "Quit")

run_Compare(vm) ==
    LET c == compare(vm.special_storage, vm.registers.math_a, vm.registers.math_b, 0)
    IN IF c \in {"Err", "Panic"} THEN Res(vm, c)
       ELSE set_last_comparision(vm, c)

\* Return without the test for the last frame: the pop empties the
\* callstack, and the index of the new top frame underflows.
run_Return_unguarded(vm) ==
    IF vm.callstack = <<>> THEN Err(vm)
    ELSE LET vm1 == [vm EXCEPT !.callstack = SubSeq(@, 1, Len(@) - 1)]
         IN IF vm1.callstack = <<>> THEN Panic(vm1)
            ELSE LET w == write_to(vm1, vm1.registers.math_b, Len(vm1.callstack), 0)
                 IN IF Failed(w) THEN w ELSE Res(w.vm, "Returned")

\* Return that pops the last frame too before it reports Quit.
run_Return_popping_last(vm) ==
    IF vm.callstack = <<>> THEN Err(vm)
    ELSE IF Len(vm.callstack) = 1
    THEN Res([vm EXCEPT !.registers.has_quit = TRUE, !.callstack = <<>>], "Quit")
    ELSE LET vm1 == [vm EXCEPT !.callstack = SubSeq(@, 1, Len(@) - 1)]
             w == write_to(vm1, vm1.registers.math_b, Len(vm1.callstack), 0)
         IN IF Failed(w) THEN w ELSE Res(w.vm, "Returned")

run_Return(vm) ==
    IF Len(vm.callstack) = 1
    THEN Res([vm EXCEPT !.registers.has_quit = TRUE], "Quit")
    ELSE IF vm.callstack = <<>> THEN Err(vm)
    ELSE LET vm1 == [vm EXCEPT !.callstack = SubSeq(@, 1, Len(@) - 1)]
             index == Len(vm1.callstack)
             w == write_to(vm1, vm1.registers.math_b, index, 0)
         IN IF Failed(w) THEN w
            ELSE IF Len(w.vm.callstack) = 1 /\ w.vm.registers.is_interactive
                 THEN LET p == run_nested_PrintMathBDebug(w.vm)
                      IN IF Failed(p) THEN p ELSE Res(p.vm, "Returned")
                 ELSE Res(w.vm, "Returned")

run_ExecuteIf(vm, req) ==
    IF get_current_skip_level(vm) > 0 THEN increase_skip_level(vm)
    ELSE LET m == last_comparision_matches(vm, req)
         IN IF m = "Err" THEN Err(vm)
            ELSE IF m = "FALSE" THEN increase_skip_level(vm)
            ELSE Ok(vm)

run_MakeNewFrame(vm, id) ==
    Ok([vm EXCEPT !.callstack =
            Append(@, FunctionFrame_new(id, vm.registers.default_stack_size))])

run_SetLastFrameReady(vm) ==
    IF vm.callstack # <<>>
    THEN Ok([vm EXCEPT !.callstack[Len(vm.callstack)].ready = TRUE])
    ELSE Err(vm)

run_AssertMathBCompatible(vm, kind) ==
    LET v == vm.registers.math_b
    IN CASE v.t = "Null" -> Err(vm)
         [] v.t = "Text" -> IF kind = "Text" THEN Ok(vm) ELSE Err(vm)
         [] v.t = "Integer" ->
                IF kind = "Integer" \/ kind = "Number" THEN Ok(vm) ELSE Err(vm)
         [] v.t = "Number" -> IF kind = "Number" THEN Ok(vm) ELSE Err(vm)
         [] v.t = "List" -> IF kind = "List" THEN Ok(vm) ELSE Err(vm)

\* The line a reader on stdin gives.
InputLine == "in"

\* ReadInput that fails when there is no reader.
run_ReadInput_needs_reader(vm) ==
    IF vm.stdin \in {"fail", "none"} THEN Err(vm)
    ELSE IF vm.stdin = "eof" THEN Panic(vm)
    ELSE LET parent_index == get_last_ready_index(vm)
         IN IF parent_index = 0 THEN Err(vm)
            ELSE LET a == add_special_item(vm, parent_index, TextData(InputLine))
                 IN IF ~a.ok THEN Err(vm)
                    ELSE Ok([a.vm EXCEPT !.registers.intermediate = Text(a.id)])

\* stdin is "none" (no reader), "line" (a reader that gives the line
\* InputLine and its newline), "eof" (a reader at its end: the removal of
\* the last character of the empty line panics) or "fail".
run_ReadInput(vm) ==
    IF vm.stdin = "fail" THEN Err(vm)
    ELSE IF vm.stdin = "eof" THEN Panic(vm)
    ELSE LET parent_index == get_last_ready_index(vm)
         IN IF parent_index = 0 THEN Err(vm)
            ELSE IF vm.stdin = "none" THEN Ok(vm)
            ELSE LET a == add_special_item(vm, parent_index, TextData(InputLine))
                 IN IF ~a.ok THEN Err(vm)
                    ELSE Ok([a.vm EXCEPT !.registers.intermediate = Text(a.id)])

run_ConvertToNum(vm) ==
    LET v == conv_to_num(vm.special_storage, vm.registers.math_b)
    IN IF ~v.ok THEN Err(vm)
       ELSE Ok([vm EXCEPT !.registers.math_b = Number(v.v)])

run_ConvertToInt(vm) ==
    LET v == conv_to_int(vm.special_storage, vm.registers.math_b)
    IN IF ~v.ok THEN Err(vm)
       ELSE Ok([vm EXCEPT !.registers.math_b = Integer(v.v)])

run_ConvertToString(vm) ==
    LET val == vm.registers.math_b
    IN IF val.t = "Text" THEN Ok(vm)
       ELSE LET v == conv_to_string(vm.special_storage, val, 0)
                parent_index == get_last_ready_index(vm)
            IN IF v.st # "Normal" THEN Res(vm, v.st)
               ELSE IF parent_index = 0 THEN Err(vm)
               ELSE LET a == add_special_item(vm, parent_index, TextData(v.s))
                    IN IF ~a.ok THEN Err(vm)
                       ELSE Ok([a.vm EXCEPT !.registers.math_b = Text(a.id)])

run_PushValMathA(vm, raw) ==
    LET d == raw_to_dynamic(vm, raw)
    IN IF d.ok THEN Ok([d.vm EXCEPT !.registers.math_a = d.val]) ELSE Err(vm)

run_PushValMathB(vm, raw) ==
    LET d == raw_to_dynamic(vm, raw)
    IN IF d.ok THEN Ok([d.vm EXCEPT !.registers.math_b = d.val]) ELSE Err(vm)

run_ReadGlobalVarFrom(vm, addr) ==
    LET r == read_from_id(vm, 1, addr)
    IN IF r.st # "Normal" THEN Res(vm, r.st)
       ELSE Ok([vm EXCEPT !.registers.intermediate = r.val])

run_WriteGlobalVarTo(vm, addr) == write_to(vm, vm.registers.math_b, 1, addr)

run_ReadVarFrom(vm, addr) ==
    LET index == get_last_ready_index(vm)
    IN IF index = 0 THEN Err(vm)
       ELSE LET r == read_from_id(vm, index, addr)
            IN IF r.st # "Normal" THEN Res(vm, r.st)
               ELSE Ok([vm EXCEPT !.registers.intermediate = r.val])

run_WriteVarTo(vm, addr) ==
    LET index == get_last_ready_index(vm)
    IN IF index = 0 THEN Err(vm)
       ELSE write_to(vm, vm.registers.math_b, index, addr)

run_WriteVarToLast(vm, addr) ==
    write_to(vm, vm.registers.math_b, Len(vm.callstack), addr)

\* Add, Mul, Div and Sub: op is the *_values function applied to math_a and
\* math_b.
run_Arith(r) ==
    IF r.st # "Normal" THEN Res(r.vm, r.st)
    ELSE Ok([r.vm EXCEPT !.registers.math_b = r.val])

\* Add with the operands exchanged: math_b as left, math_a as right.
run_Add_exchanged(vm) ==
    run_Arith(add_values(vm, vm.registers.math_b, vm.registers.math_a))

run_Add(vm) == run_Arith(add_values(vm, vm.registers.math_a, vm.registers.math_b))
run_Mul(vm) == run_Arith(mul_values(vm, vm.registers.math_a, vm.registers.math_b))
run_Div(vm) == run_Arith(div_values(vm, vm.registers.math_a, vm.registers.math_b))
run_Sub(vm) == run_Arith(sub_values(vm, vm.registers.math_a, vm.registers.math_b))

run_SwapMath(vm) ==
    Ok([vm EXCEPT !.registers.math_b = vm.registers.math_a,
                  !.registers.math_a = vm.registers.math_b])

run_ClearMath(vm) ==
    Ok([vm EXCEPT !.registers.math_a = Null,
                  !.registers.math_b = Null,
                  !.registers.intermediate = Null])

run_AddLoopLabel(vm) ==
    LET f == get_last_ready_mut(vm)
    IN IF f = 0 THEN Err(vm)
       ELSE Ok([vm EXCEPT !.callstack[f].label_stack =
                    Append(@, LoopLabel_new(get_current_pc(vm)))])

run_RestoreLoopLabel(vm) ==
    LET f == get_last_ready_ref(vm)
    IN IF f = 0 THEN Err(vm)
       ELSE IF vm.callstack[f].label_stack = <<>> THEN Err(vm)
       ELSE LET label == vm.callstack[f].label_stack[Len(vm.callstack[f].label_stack)]
                vm1 == set_current_pc(vm, label.start_pc).vm
            IN IF ~label.has_index THEN Ok(vm1)
               ELSE LET index == get_last_ready_index(vm1)
                    IN IF index = 0 THEN Err(vm1)
                       ELSE LET current == read_from_id(vm1, index, label.index_address)
                            IN IF current.st # "Normal" THEN Res(vm1, current.st)
                               ELSE LET result == add_values(vm1, current.val, label.stepping)
                                    IN IF result.st # "Normal" THEN Res(result.vm, result.st)
                                       ELSE write_to(result.vm, result.val, index,
                                                     label.index_address)

\* PopLoopLabel that removes the outermost label instead of the top one.
run_PopLoopLabel_outermost(vm) ==
    LET f == get_last_ready_mut(vm)
    IN IF f = 0 THEN Err(vm)
       ELSE IF vm.callstack[f].label_stack = <<>> THEN Err(vm)
       ELSE Ok([vm EXCEPT !.callstack[f].label_stack = SubSeq(@, 2, Len(@))])

run_PopLoopLabel(vm) ==
    LET f == get_last_ready_mut(vm)
    IN IF f = 0 THEN Err(vm)
       ELSE IF vm.callstack[f].label_stack = <<>> THEN Err(vm)
       ELSE Ok([vm EXCEPT !.callstack[f].label_stack = SubSeq(@, 1, Len(@) - 1)])

\* RegisterIncrementOnRestore that leaves the label's start_pc where
\* AddLoopLabel put it.
run_RegisterIncrementOnRestore_keeping_start(vm, address) ==
    LET f == get_last_ready_mut(vm)
    IN IF f = 0 THEN Err(vm)
       ELSE IF vm.callstack[f].label_stack = <<>> THEN Err(vm)
       ELSE LET n == Len(vm.callstack[f].label_stack)
            IN Ok([vm EXCEPT !.callstack[f].label_stack[n] =
                       [stepping |-> vm.registers.math_b,
                        has_index |-> TRUE,
                        index_address |-> address,
                        start_pc |-> @.start_pc]])

run_RegisterIncrementOnRestore(vm, address) ==
    LET f == get_last_ready_mut(vm)
    IN IF f = 0 THEN Err(vm)
       ELSE IF vm.callstack[f].label_stack = <<>> THEN Err(vm)
       ELSE LET n == Len(vm.callstack[f].label_stack)
            IN Ok([vm EXCEPT !.callstack[f].label_stack[n] =
                       [stepping |-> vm.registers.math_b,
                        has_index |-> TRUE,
                        index_address |-> address,
                        start_pc |-> @.start_pc + 1]])

\* SetFirstExpressionOperation that leaves the flag as it is.
run_SetFirstExpressionOperation_unset(vm) == Ok(vm)

run_SetFirstExpressionOperation(vm) ==
    Ok([vm EXCEPT !.registers.first_operation = TRUE])

run_MakeNewList(vm) ==
    LET index == get_last_ready_index(vm)
    IN IF index = 0 THEN Err(vm)
       ELSE LET a == add_special_item(vm, index, ListData(<<>>))
            IN IF ~a.ok THEN Err(vm)
               ELSE Ok([a.vm EXCEPT !.registers.math_b = List(a.id)])

\* "index as usize" of a negative index is far beyond any length.
AsUsizeBeyond(index, len) == index < 0 \/ index >= len

run_IndexList(vm) ==
    IF vm.registers.math_b.t # "Integer" THEN Err(vm)
    ELSE IF vm.registers.intermediate.t # "List" THEN Err(vm)
    ELSE LET index == vm.registers.math_b.v
             ss == vm.special_storage
             i == get_data_ref(ss, vm.registers.intermediate.v)
         IN IF i = 0 \/ ss.items[i].data.kind # "List" THEN Err(vm)
            ELSE IF AsUsizeBeyond(index, Len(ss.items[i].data.list)) THEN Err(vm)
            ELSE Ok([vm EXCEPT !.registers.math_b = ss.items[i].data.list[index + 1]])

\* AddToListAtIndex that copies on write: the list with the new element is
\* a new item, whose handle replaces the one in intermediate.
run_AddToListAtIndex_copying(vm) ==
    IF vm.registers.intermediate.t # "List" THEN Err(vm)
    ELSE LET ss == vm.special_storage
             i == get_ref(ss, vm.registers.intermediate.v)
         IN IF i = 0 \/ ss.items[i].data.kind # "List" THEN Err(vm)
            ELSE LET a == add(ss, ListData(Append(ss.items[i].data.list,
                                                  vm.registers.math_b)), 0)
                 IN Ok([vm EXCEPT !.special_storage = a.ss,
                                  !.registers.intermediate = List(a.id)])

run_AddToListAtIndex(vm) ==
    IF vm.registers.intermediate.t # "List" THEN Err(vm)
    ELSE LET value == vm.registers.math_b
             ss == vm.special_storage
             i == get_ref(ss, vm.registers.intermediate.v)
         IN IF i = 0 \/ ss.items[i].data.kind # "List" THEN Err(vm)
            ELSE LET list == ss.items[i].data.list
                     new == IF vm.registers.secondary.t = "Integer"
                               /\ ~AsUsizeBeyond(vm.registers.secondary.v, Len(list))
                            THEN InsertAt(list, vm.registers.secondary.v + 1, value)
                            ELSE Append(list, value)
                 IN Ok([vm EXCEPT !.special_storage.items[i].data.list = new])

run_ClearSecondary(vm) == Ok([vm EXCEPT !.registers.secondary = Null])

run_PushMathBToSeconday(vm) ==
    Ok([vm EXCEPT !.registers.secondary = vm.registers.math_b])

\* RemoveFromListAtIndex that removes the last element whatever the index.
run_RemoveFromListAtIndex_last(vm) ==
    IF vm.registers.math_b.t # "Integer" THEN Err(vm)
    ELSE IF vm.registers.intermediate.t # "List" THEN Err(vm)
    ELSE LET index == vm.registers.math_b.v
             ss == vm.special_storage
             i == get_ref(ss, vm.registers.intermediate.v)
         IN IF i = 0 \/ ss.items[i].data.kind # "List" THEN Err(vm)
            ELSE IF AsUsizeBeyond(index, Len(ss.items[i].data.list)) THEN Err(vm)
            ELSE Ok([vm EXCEPT !.special_storage.items[i].data.list =
                         RemoveAt(@, Len(@))])

run_RemoveFromListAtIndex(vm) ==
    IF vm.registers.math_b.t # "Integer" THEN Err(vm)
    ELSE IF vm.registers.intermediate.t # "List" THEN Err(vm)
    ELSE LET index == vm.registers.math_b.v
             ss == vm.special_storage
             i == get_ref(ss, vm.registers.intermediate.v)
         IN IF i = 0 \/ ss.items[i].data.kind # "List" THEN Err(vm)
            ELSE IF AsUsizeBeyond(index, Len(ss.items[i].data.list)) THEN Err(vm)
            ELSE Ok([vm EXCEPT !.special_storage.items[i].data.list =
                         RemoveAt(@, index + 1)])

run_QueryListSize(vm) ==
    IF vm.registers.intermediate.t # "List" THEN Err(vm)
    ELSE LET ss == vm.special_storage
             i == get_data_ref(ss, vm.registers.intermediate.v)
         IN IF i = 0 \/ ss.items[i].data.kind # "List" THEN Err(vm)
            ELSE Ok([vm EXCEPT !.registers.math_b =
                         Integer(Len(ss.items[i].data.list))])

\* The last num values pushed, last first.
\* The arguments taken from the stack in the order they were pushed.
PopArgs_in_push_order(stack, num) ==
    SubSeq(stack, Len(stack) - num + 1, Len(stack))

PopArgs(stack, num) == [k \in 1..num |-> stack[Len(stack) + 1 - k]]

run_CallPlugin(vm, address, num) ==
    IF address > Len(vm.plugins) THEN Err(vm)
    ELSE IF address = Len(vm.plugins) THEN Panic(vm)
    ELSE IF num > Len(vm.plugin_argument_stack) THEN Err(vm)
    ELSE LET args == PopArgs(vm.plugin_argument_stack, num)
             vm1 == [vm EXCEPT !.plugin_argument_stack =
                         SubSeq(@, 1, Len(@) - num)]
             result == plugin_call(vm.plugins[address + 1], args, vm1)
         IN IF result.st = "Err" THEN Err(result.vm)
            ELSE IF result.st = "None" THEN Ok(result.vm)
            ELSE LET w == write_to(result.vm, result.val, Len(result.vm.callstack), 0)
                 IN IF Failed(w) THEN w
                    ELSE IF w.vm.registers.is_interactive /\ Len(w.vm.callstack) = 1
                         THEN LET tmp == w.vm.registers.math_b
                                  p == run_nested_PrintMathBDebug(
                                         [w.vm EXCEPT !.registers.math_b = result.val])
                              IN IF Failed(p) THEN p
                                 ELSE Ok([p.vm EXCEPT !.registers.math_b = tmp])
                         ELSE Ok(w.vm)

run_PushMathBPluginArgument(vm) ==
    Ok([vm EXCEPT !.plugin_argument_stack = Append(@, vm.registers.math_b)])

run_TryDecrementRefAt(vm, address) ==
    LET index == get_last_ready_index(vm)
    IN IF index = 0 THEN Err(vm)
       ELSE LET r == read_from_id(vm, index, address)
            IN IF r.st # "Normal" THEN Res(vm, r.st)
               ELSE IF IsSpecial(r.val)
                    THEN Ok([vm EXCEPT !.special_storage = decrement_ref(@, r.val.v)])
                    ELSE Ok(vm)

\* The match of run over the opcode, reached at skip level 0.
dispatch(vm, inst) ==
    CASE inst.op = "EndConditionalBlock" -> Ok(vm)
      [] inst.op = "PrintMathBDebug" -> run_PrintMathBDebug(vm)
      [] inst.op = "PrintMathB" -> print_value(vm, vm.registers.math_b)
      [] inst.op = "PrintNewLine" -> IF vm_write(vm) THEN Ok(vm) ELSE Err(vm)
      [] inst.op = "Quit" -> run_Quit(vm)
      [] inst.op = "FlushStdout" -> Ok(vm)
      [] inst.op = "Compare" -> run_Compare(vm)
      [] inst.op = "Return" -> run_Return(vm)
      [] inst.op = "ExecuteIf" -> run_ExecuteIf(vm, inst.req)
      [] inst.op = "MakeNewFrame" -> run_MakeNewFrame(vm, inst.a)
      [] inst.op = "SetLastFrameReady" -> run_SetLastFrameReady(vm)
      [] inst.op = "AssertMathBCompatible" ->
            run_AssertMathBCompatible(vm, inst.kind)
      [] inst.op = "ReadInput" -> run_ReadInput(vm)
      [] inst.op = "ConvertToNum" -> run_ConvertToNum(vm)
      [] inst.op = "ConvertToInt" -> run_ConvertToInt(vm)
      [] inst.op = "ConvertToString" -> run_ConvertToString(vm)
      [] inst.op = "PushValMathA" -> run_PushValMathA(vm, inst.raw)
      [] inst.op = "PushValMathB" -> run_PushValMathB(vm, inst.raw)
      [] inst.op = "PushIntermediateToA" ->
            Ok([vm EXCEPT !.registers.math_a = vm.registers.intermediate])
      [] inst.op = "PushIntermediateToB" ->
            Ok([vm EXCEPT !.registers.math_b = vm.registers.intermediate])
      [] inst.op = "ReadGlobalVarFrom" -> run_ReadGlobalVarFrom(vm, inst.a)
      [] inst.op = "WriteGlobalVarTo" -> run_WriteGlobalVarTo(vm, inst.a)
      [] inst.op = "ReadVarFrom" -> run_ReadVarFrom(vm, inst.a)
      [] inst.op = "WriteVarTo" -> run_WriteVarTo(vm, inst.a)
      [] inst.op = "WriteVarToLast" -> run_WriteVarToLast(vm, inst.a)
      [] inst.op = "SwapMath" -> run_SwapMath(vm)
      [] inst.op = "ClearMath" -> run_ClearMath(vm)
      [] inst.op = "Add" -> run_Add(vm)
      [] inst.op = "Mul" -> run_Mul(vm)
      [] inst.op = "Div" -> run_Div(vm)
      [] inst.op = "Sub" -> run_Sub(vm)
      [] inst.op = "AddLoopLabel" -> run_AddLoopLabel(vm)
      [] inst.op = "RestoreLoopLabel" -> run_RestoreLoopLabel(vm)
      [] inst.op = "PopLoopLabel" -> run_PopLoopLabel(vm)
      [] inst.op = "RegisterIncrementOnRestore" ->
            run_RegisterIncrementOnRestore(vm, inst.a)
      [] inst.op = "SetFirstExpressionOperation" ->
            run_SetFirstExpressionOperation(vm)
      [] inst.op = "MakeNewList" -> run_MakeNewList(vm)
      [] inst.op = "IndexList" -> run_IndexList(vm)
      [] inst.op = "AddToListAtIndex" -> run_AddToListAtIndex(vm)
      [] inst.op = "ClearSecondary" -> run_ClearSecondary(vm)
      [] inst.op = "PushMathBToSeconday" -> run_PushMathBToSeconday(vm)
      [] inst.op = "RemoveFromListAtIndex" -> run_RemoveFromListAtIndex(vm)
      [] inst.op = "QueryListSize" -> run_QueryListSize(vm)
      [] inst.op = "CallPlugin" -> run_CallPlugin(vm, inst.a, inst.b)
      [] inst.op = "PushMathBPluginArgument" -> run_PushMathBPluginArgument(vm)
      [] inst.op = "IncreaseSkippingLevel" -> increase_skip_level(vm)
      [] inst.op = "Halt" -> Res(vm, "Halt")
      [] inst.op = "TryDecrementRefAt" -> run_TryDecrementRefAt(vm, inst.a)

\* The skip path on which a Quit still acts.
run_skipping_but_Quit(vm, inst) ==
    IF inst.op = "EndConditionalBlock"
    THEN LET d == decrease_skip_level(vm)
         IN IF Failed(d) THEN d ELSE Ok(d.vm)
    ELSE IF inst.op = "Quit" THEN run_Quit(vm)
    ELSE Ok(vm)

\* While the current frame skips, only EndConditionalBlock acts.
run_skipping(vm, inst) ==
    IF inst.op = "EndConditionalBlock"
    THEN LET d == decrease_skip_level(vm)
         IN IF Failed(d) THEN d ELSE Ok(d.vm)
    ELSE Ok(vm)

\* run without the test that guards decrease_skip_level.
run_unguarded_decrease(vm, inst) ==
    IF inst.op = "EndConditionalBlock"
    THEN LET d == decrease_skip_level(vm)
         IN IF Failed(d) THEN d ELSE Ok(d.vm)
    ELSE IF get_current_skip_level(vm) > 0 THEN Ok(vm) ELSE dispatch(vm, inst)

run(vm, inst) ==
    IF get_current_skip_level(vm) > 0
    THEN run_skipping(vm, inst)
    ELSE dispatch(vm, inst)

\* What execute_next_instruction fetches: the instruction and where from,
\* or why nothing is fetched.
fetch(vm) ==
    LET f == get_last_ready_ref(vm)
    IN IF vm.callstack = <<>> \/ f = 0
       THEN [st |-> "Err", frame |-> 0, pc |-> 0, inst |-> NoInstruction]
       ELSE LET id == get_current_id(vm)
                pc == get_current_pc(vm)
            IN IF Len(vm.code) <= id
               THEN [st |-> "Err", frame |-> f, pc |-> pc, inst |-> NoInstruction]
               ELSE IF Len(vm.code[id + 1]) <= pc
               THEN [st |-> "Panic", frame |-> f, pc |-> pc, inst |-> NoInstruction]
               ELSE [st |-> "Normal", frame |-> f, pc |-> pc,
                     inst |-> vm.code[id + 1][pc + 1]]

\* execute_next_instruction that advances the program counter after run,
\* and only when run succeeds.
execute_next_instruction_pc_on_success(vm) ==
    LET ft == fetch(vm)
    IN IF ft.st = "Err" THEN Err(vm)
       ELSE IF ft.st = "Panic" THEN Panic(increment_pc(vm).vm)
       ELSE LET r == run(vm, ft.inst)
            IN IF Failed(r) THEN r ELSE Res(increment_pc(r.vm).vm, r.st)

execute_next_instruction(vm) ==
    LET ft == fetch(vm)
    IN IF ft.st = "Err" THEN Err(vm)
       ELSE LET vm1 == increment_pc(vm).vm
            IN IF ft.st = "Panic" THEN Panic(vm1)
               ELSE run(vm1, ft.inst)

\* ------------------------------------------------------------------ actions

\* The plugins the embedder registers, in this order.
PluginKinds == <<"sum", "first", "last">>

Init ==
    /\ registers = Registers_default
    /\ callstack = <<>>
    /\ special_storage = SpecialStorage_new
    /\ plugin_argument_stack = <<>>
    /\ code = <<>>
    /\ plugins = <<>>
    /\ stdout = "none"
    /\ stdin = "none"
    /\ trace = <<>>

Last == trace[Len(trace)]

Panicked == trace # <<>> /\ trace[Len(trace)].st = "Panic"

\* The program has not started: the embedder is still setting the VM up.
SettingUp == callstack = <<>> /\ trace = <<>>

\* add_new_code
AddNewCode ==
    /\ SettingUp
    /\ plugins = <<>>
    /\ Len(code) < NumFuncs
    /\ code' = Append(code, <<>>)
    /\ registers' = [registers EXCEPT !.next_code_index = @ + 1]
    /\ UNCHANGED <<callstack, special_storage, plugin_argument_stack, plugins,
                   stdout, stdin, trace>>

\* add_new_plugin
AddNewPlugin ==
    /\ SettingUp
    /\ Len(code) = NumFuncs
    /\ Len(plugins) < Len(PluginKinds)
    /\ plugins' = Append(plugins, PluginKinds[Len(plugins) + 1])
    /\ registers' = [registers EXCEPT !.next_plugin_index = @ + 1]
    /\ UNCHANGED <<callstack, special_storage, plugin_argument_stack, code,
                   stdout, stdin, trace>>

SetUp == Len(code) = NumFuncs /\ Len(plugins) = Len(PluginKinds)

\* set_interactive_mode
SetInteractiveMode ==
    /\ SettingUp /\ SetUp
    /\ ~registers.is_interactive
    /\ registers' = [registers EXCEPT !.is_interactive = TRUE]
    /\ UNCHANGED <<callstack, special_storage, plugin_argument_stack, code,
                   plugins, stdout, stdin, trace>>

\* set_stdout(Some(w)), with a sink that takes the writes or fails them
SetStdout(w) ==
    /\ SettingUp /\ SetUp
    /\ stdout = "none"
    /\ stdout' = w
    /\ UNCHANGED <<registers, callstack, special_storage, plugin_argument_stack,
                   code, plugins, stdin, trace>>

\* set_stdin(Some(r)), with a reader that gives a line, is at its end, or
\* fails
SetStdin(r) ==
    /\ SettingUp /\ SetUp
    /\ stdin = "none"
    /\ stdin' = r
    /\ UNCHANGED <<registers, callstack, special_storage, plugin_argument_stack,
                   code, plugins, stdout, trace>>

Install(vm) ==
    /\ registers' = vm.registers
    /\ callstack' = vm.callstack
    /\ special_storage' = vm.special_storage
    /\ plugin_argument_stack' = vm.plugin_argument_stack
    /\ UNCHANGED <<code, plugins, stdout, stdin>>

\* The driver starts the program by handing run the two instructions that
\* push the global frame and make it ready.
RunDirect ==
    /\ SetUp
    /\ trace = <<>>
    /\ get_last_ready_ref(VM) = 0
    /\ Install(run(VM, IF callstack = <<>> THEN InsA("MakeNewFrame", 0)
                       ELSE Ins("SetLastFrameReady")).vm)
    /\ UNCHANGED trace

\* get_code_for(id).push(inst): the embedder appends the next instruction of
\* the running function when the program counter has reached the end of it.
AddInstruction(inst, steps) ==
    /\ ~Panicked
    /\ Len(trace) < steps
    /\ fetch(VM).st = "Panic"
    /\ code' = [code EXCEPT ![get_current_id(VM) + 1] = Append(@, inst)]
    /\ UNCHANGED <<registers, callstack, special_storage, plugin_argument_stack,
                   plugins, stdout, stdin, trace>>

\* What the driver sees of one call of execute_next_instruction: the frame
\* (position in callstack), function id, program counter and instruction
\* fetched, the
\* skip level of that frame before the call, for an ExecuteIf whether the
\* last comparison matched, the status returned, and whether anything but
\* the program counter changed.
Observe(vm, ft, r) ==
    [frame |-> ft.frame,
     id |-> IF ft.frame = 0 THEN -1 ELSE vm.callstack[ft.frame].id,
     pc |-> ft.pc,
     inst |-> ft.inst,
     skip |-> get_current_skip_level(vm),
     matched |-> IF ft.inst.op = "ExecuteIf"
                 THEN last_comparision_matches(vm, ft.inst.req)
                 ELSE "NA",
     st |-> r.st,
     effect |-> ft.st = "Normal" /\ r.vm # increment_pc(vm).vm]

ExecuteNextInstruction(steps) ==
    /\ ~Panicked
    /\ Len(trace) < steps
    /\ LET r == execute_next_instruction(VM)
       IN /\ Install(r.vm)
          /\ trace' = Append(trace, Observe(VM, fetch(VM), r))

\* A program over Alphabet, run for at most steps instructions.
NextOf(Alphabet, steps) ==
    \/ AddNewCode
    \/ AddNewPlugin
    \/ RunDirect
    \/ \E inst \in Alphabet : AddInstruction(inst, steps)
    \/ ExecuteNextInstruction(steps)

\* The same, on a VM the embedder may first have configured.
NextConfigured(Alphabet, steps) ==
    \/ NextOf(Alphabet, steps)
    \/ SetInteractiveMode
    \/ \E w \in {"ok", "fail"} : SetStdout(w)

\* ------------------------------------------------------------- alphabets

SkipInstructions ==
    {Ins("Compare"), ExecuteIf("Equal"), ExecuteIf("NotEqual"),
     Ins("EndConditionalBlock"), Ins("IncreaseSkippingLevel"),
     PushValMathB(RawInteger(1)),
     InsA("MakeNewFrame", 1), Ins("SetLastFrameReady"), Ins("Return")}

NextSkip == NextOf(SkipInstructions, StepsSkip)
SpecSkip == Init /\ [][NextSkip]_vars

\* Programs that create texts, store them in slots, release them, call and
\* return, and call a plugin that gives back its argument.
HeapInstructions ==
    {PushValMathB(RawText("a")), PushValMathB(RawInteger(1)),
     InsA("WriteVarTo", 0), InsA("WriteVarTo", 1),
     InsA("TryDecrementRefAt", 0),
     InsA("MakeNewFrame", 1), Ins("SetLastFrameReady"), Ins("Return"),
     Ins("PushMathBPluginArgument"), InsAB("CallPlugin", 1, 1)}

NextHeap == NextOf(HeapInstructions, StepsHeap)
SpecHeap == Init /\ [][NextHeap]_vars

\* Programs that create texts and write them, and integers, to slots through
\* each of the instructions that write a slot, in the global frame, a callee
\* and a frame that is not ready yet.
NextWrite ==
    NextOf({PushValMathB(RawText("a")), PushValMathB(RawInteger(1)),
            InsA("WriteVarTo", 0), InsA("WriteGlobalVarTo", 1),
            InsA("WriteVarToLast", 0),
            InsA("MakeNewFrame", 1), Ins("SetLastFrameReady"), Ins("Return"),
            Ins("PushMathBPluginArgument"), InsAB("CallPlugin", 1, 1)},
           StepsWrite)
SpecWrite == Init /\ [][NextWrite]_vars

\* The calls of the storage by themselves: add with a reference count of 0,
\* 1 or 2, increment_ref and decrement_ref with a handle that was issued or
\* with the next one, which no item has.  trace records each call and its
\* result.
StorageCall(op, n) ==
    /\ Len(trace) < StepsStorage
    /\ LET ss == special_storage
           r == CASE op = "add" ->
                       [ss |-> add(ss, TextData("a"), n).ss, st |-> "Ok"]
                  [] op = "increment_ref" ->
                       [ss |-> increment_ref(ss, n).ss,
                        st |-> IF increment_ref(ss, n).ok THEN "Ok" ELSE "Err"]
                  [] op = "decrement_ref" ->
                       [ss |-> decrement_ref(ss, n), st |-> "Ok"]
       IN /\ special_storage' = r.ss
          /\ trace' = Append(trace, [op |-> op, n |-> n, st |-> r.st])
    /\ UNCHANGED <<registers, callstack, plugin_argument_stack, code, plugins,
                   stdout, stdin>>

NextStorage ==
    \/ \E n \in 0..2 : StorageCall("add", n)
    \/ \E n \in 0..special_storage.next_item_id : StorageCall("increment_ref", n)
    \/ \E n \in 0..special_storage.next_item_id : StorageCall("decrement_ref", n)
SpecStorage == Init /\ [][NextStorage]_vars

\* Programs that open, register, restore and close loops over slot 0, also
\* with a pushed frame that is not ready on top.
NextLoop ==
    NextOf({PushValMathB(RawInteger(1)), InsA("WriteVarTo", 0),
            Ins("AddLoopLabel"), InsA("RegisterIncrementOnRestore", 0),
            Ins("RestoreLoopLabel"), Ins("PopLoopLabel"),
            InsA("MakeNewFrame", 1)},
           StepsLoop)
SpecLoop == Init /\ [][NextLoop]_vars

\* Programs that run a loop over slot 0 with up to two pushed frames that
\* are not ready on top of the frame that runs the loop.
NextLoopFrames ==
    NextOf({PushValMathB(RawInteger(1)), InsA("WriteVarTo", 0),
            Ins("AddLoopLabel"), InsA("RegisterIncrementOnRestore", 0),
            Ins("RestoreLoopLabel"), InsA("MakeNewFrame", 1)},
           StepsLoopFrames)
SpecLoopFrames == Init /\ [][NextLoopFrames]_vars

\* Programs that store values, call and return, on a VM that may echo
\* return values to a sink.
ReturnInstructions ==
    {PushValMathB(RawText("a")), PushValMathB(RawInteger(1)),
     InsA("WriteVarTo", 0),
     InsA("MakeNewFrame", 1), Ins("SetLastFrameReady"), Ins("Return")}

NextReturn == NextConfigured(ReturnInstructions, StepsReturn)
SpecReturn == Init /\ [][NextReturn]_vars

\* Programs that push frames, make them ready, return, and read and write
\* a local variable.
CallInstructions ==
    {InsA("MakeNewFrame", 1), Ins("SetLastFrameReady"), Ins("Return"),
     PushValMathB(RawInteger(1)), InsA("WriteVarTo", 1), InsA("ReadVarFrom", 1)}

NextCall == NextOf(CallInstructions, StepsCall)
SpecCall == Init /\ [][NextCall]_vars

\* Programs that make lists, store their handles in slots, read them back
\* and add to them; the last instruction may also index the list.
ListCore ==
    {Ins("MakeNewList"), InsA("WriteVarTo", 0), InsA("WriteVarTo", 1),
     InsA("ReadVarFrom", 0), Ins("QueryListSize"), Ins("AddToListAtIndex")}

NextList ==
    \/ AddNewCode
    \/ AddNewPlugin
    \/ RunDirect
    \/ \E inst \in ListCore : AddInstruction(inst, StepsList)
    \/ Len(trace) = StepsList - 1 /\ AddInstruction(Ins("IndexList"), StepsList)
    \/ ExecuteNextInstruction(StepsList)

SpecList == Init /\ [][NextList]_vars

\* The state after MakeNewList; WriteVarTo(0); ReadVarFrom(0) and up to two
\* AddToListAtIndex of Integers: the global frame is ready, slot 0 and
\* intermediate hold the handle of the list, item 0, and math_b and secondary
\* hold an index inside, at or outside the ends of the list, or secondary is
\* Null.
InitListOps ==
    /\ \E list \in {<<>>, <<Integer(10)>>, <<Integer(10), Integer(20)>>},
          b \in {Integer(i) : i \in -1..2},
          s \in {Null} \cup {Integer(i) : i \in -1..2} :
          /\ registers = [Registers_default EXCEPT
                            !.math_b = b, !.secondary = s,
                            !.intermediate = List(0),
                            !.next_code_index = NumFuncs]
          /\ special_storage =
                [items |-> <<[data |-> ListData(list), item_id |-> 0,
                              ref_count |-> 1]>>,
                 next_item_id |-> 1]
    /\ callstack = <<[FunctionFrame_new(0, StackSize) EXCEPT
                        !.ready = TRUE,
                        !.num_special_items = 1,
                        !.stack[1] = List(0)]>>
    /\ plugin_argument_stack = <<>>
    /\ code = [f \in 1..NumFuncs |-> <<>>]
    /\ plugins = <<>>
    /\ stdout = "none"
    /\ stdin = "none"
    /\ trace = <<>>

\* From there, programs that add to the list, index it and remove from it,
\* and that create a text, store it in slot 1 and release it.
NextListOps ==
    \/ \E inst \in {Ins("AddToListAtIndex"), Ins("IndexList"),
                    Ins("RemoveFromListAtIndex"), PushValMathB(RawText("a")),
                    InsA("WriteVarTo", 1), InsA("TryDecrementRefAt", 1)} :
          AddInstruction(inst, StepsListOps)
    \/ ExecuteNextInstruction(StepsListOps)

SpecListOps == InitListOps /\ [][NextListOps]_vars

\* A heap for comparisons, as PushValMathB, MakeNewList and AddToListAtIndex
\* build it: texts, two of them with the same contents, and lists of
\* integers, nulls, texts and lists, one of them holding itself.
CompareHeap ==
    LET data == <<TextData("a"), TextData("a"), TextData("b"), TextData("ab"),
                  ListData(<<>>),
                  ListData(<<Integer(1), Text(0)>>),
                  ListData(<<Integer(1), Text(1)>>),
                  ListData(<<Integer(1), Text(2)>>),
                  ListData(<<Null, List(5)>>),
                  ListData(<<Null, List(6)>>),
                  ListData(<<Null, Integer(1)>>),
                  ListData(<<List(11)>>)>>
    IN [items |-> [i \in 1..Len(data) |->
                      [data |-> data[i], item_id |-> i - 1, ref_count |-> 0]],
        next_item_id |-> Len(data)]

\* The values compared: of every type, over the live handles of CompareHeap
\* and one handle of each kind that names no item.
CompareValues ==
    {Null, Integer(0), Integer(1), Number(1)}
    \cup {Text(h) : h \in {0, 1, 2, 3, CompareHeap.next_item_id}}
    \cup {List(h) : h \in (4..11) \cup {CompareHeap.next_item_id}}

\* The global frame is ready, the heap is CompareHeap, and math_a and math_b
\* hold any two of CompareValues.
InitCompare ==
    /\ \E x \in CompareValues, y \in CompareValues :
          registers = [Registers_default EXCEPT !.math_a = x, !.math_b = y,
                                                !.next_code_index = NumFuncs]
    /\ callstack = <<[FunctionFrame_new(0, StackSize) EXCEPT
                        !.ready = TRUE,
                        !.num_special_items = CompareHeap.next_item_id]>>
    /\ special_storage = CompareHeap
    /\ plugin_argument_stack = <<>>
    /\ code = [f \in 1..NumFuncs |-> <<>>]
    /\ plugins = <<>>
    /\ stdout = "none"
    /\ stdin = "none"
    /\ trace = <<>>

NextCompare ==
    \/ \E inst \in {Ins("Compare"), Ins("SwapMath")} :
          AddInstruction(inst, StepsCompare)
    \/ ExecuteNextInstruction(StepsCompare)

SpecCompare == InitCompare /\ [][NextCompare]_vars

\* From the same states, programs of Compare and ExecuteIf with every
\* ComparisionRequest.
NextIf ==
    \/ \E inst \in {Ins("Compare")}
                   \cup {ExecuteIf(req) : req \in {"Equal", "NotEqual", "Less",
                                                   "LessOrEqual", "More",
                                                   "MoreOrEqual"}} :
          AddInstruction(inst, StepsIf)
    \/ ExecuteNextInstruction(StepsIf)

SpecIf == InitCompare /\ [][NextIf]_vars

\* Programs that load texts and integers into math_a and math_b, create
\* lists, set the first_operation flag and apply the four operators.
ArithInstructions ==
    {PushValMathA(RawText("hi")), PushValMathB(RawText(" world")),
     PushValMathA(RawInteger(7)), PushValMathB(RawInteger(0)),
     PushValMathB(RawInteger(-2)),
     Ins("SetFirstExpressionOperation"), Ins("SwapMath"), Ins("MakeNewList"),
     Ins("Add"), Ins("Sub"), Ins("Mul"), Ins("Div")}

NextArith == NextOf(ArithInstructions, StepsArith)
SpecArith == Init /\ [][NextArith]_vars

\* Programs that push integers as plugin arguments and push frames; a call of
\* a plugin, with a registered or an unregistered address, ends the program.
PluginCore ==
    {PushValMathB(RawInteger(1)), PushValMathB(RawInteger(2)),
     Ins("PushMathBPluginArgument"),
     InsA("MakeNewFrame", 1), Ins("SetLastFrameReady")}

PluginCalls ==
    {InsAB("CallPlugin", a, n) : a \in {1, 2}, n \in {1, 2}}
    \cup {InsAB("CallPlugin", a, 1) :
            a \in {Len(PluginKinds), Len(PluginKinds) + 1}}

NextPlugin ==
    \/ AddNewCode
    \/ AddNewPlugin
    \/ RunDirect
    \/ \E inst \in PluginCore :
          /\ IF trace = <<>> THEN TRUE ELSE Last.inst.op # "CallPlugin"
          /\ AddInstruction(inst, StepsPlugin - 1)
    \/ \E inst \in PluginCalls :
          /\ IF trace = <<>> THEN TRUE ELSE Last.inst.op # "CallPlugin"
          /\ AddInstruction(inst, StepsPlugin)
    \/ ExecuteNextInstruction(StepsPlugin)

SpecPlugin == Init /\ [][NextPlugin]_vars

\* Programs that print and read, with a text, a text whose item has been
\* released, or Null in math_b, on a VM with or without a sink and a reader.
IOInstructions ==
    {PushValMathB(RawText("a")), InsA("WriteVarTo", 0),
     InsA("TryDecrementRefAt", 0),
     Ins("PrintMathB"), Ins("PrintMathBDebug"), Ins("PrintNewLine"),
     Ins("FlushStdout"), Ins("ReadInput")}

NextIO ==
    \/ NextOf(IOInstructions, StepsIO)
    \/ \E w \in {"ok", "fail"} : SetStdout(w)
    \/ \E r \in {"line", "eof", "fail"} : SetStdin(r)

SpecIO == Init /\ [][NextIO]_vars

\* Every opcode of Instruction, with operands that reach the slots, frames,
\* functions and plugins there are and the first ones there are not.
AllInstructions ==
    {Ins(op) : op \in {"PrintMathB", "PrintMathBDebug", "PrintNewLine", "Quit",
                       "FlushStdout", "Compare", "Return", "EndConditionalBlock",
                       "SetLastFrameReady", "ReadInput", "ConvertToString",
                       "ConvertToNum", "ConvertToInt", "PushIntermediateToA",
                       "PushIntermediateToB", "Add", "Mul", "Div", "Sub",
                       "SwapMath", "ClearMath", "AddLoopLabel",
                       "RestoreLoopLabel", "PopLoopLabel",
                       "SetFirstExpressionOperation", "MakeNewList",
                       "IndexList", "AddToListAtIndex", "ClearSecondary",
                       "PushMathBToSeconday", "RemoveFromListAtIndex",
                       "QueryListSize", "PushMathBPluginArgument",
                       "IncreaseSkippingLevel", "Halt"}}
    \cup {InsA(op, a) : op \in {"MakeNewFrame", "ReadGlobalVarFrom",
                                "WriteGlobalVarTo", "ReadVarFrom", "WriteVarTo",
                                "WriteVarToLast", "RegisterIncrementOnRestore",
                                "TryDecrementRefAt"},
                        a \in {1, StackSize}}
    \cup {InsAB("CallPlugin", a, 0) : a \in 0..(Len(PluginKinds) + 1)}
    \cup {ExecuteIf(req) : req \in {"Equal", "Less", "MoreOrEqual"}}
    \cup {AssertMathBCompatible(kind) : kind \in {"Integer", "List"}}
    \cup {PushValMathA(RawInteger(0)), PushValMathA(RawText("1")),
          PushValMathB(RawNull), PushValMathB(RawText("a"))}

\* The instructions a program of SpecWide is made of before its last one:
\* they bring the VM to where the last one is run after a value, a list, a
\* comparison, a skip, a loop label, a call, a return or an error.
WideCore ==
    {PushValMathB(RawInteger(1)), Ins("MakeNewList"), InsA("WriteVarTo", 0),
     Ins("Compare"), ExecuteIf("NotEqual"), Ins("AddLoopLabel"),
     InsA("MakeNewFrame", 1), Ins("SetLastFrameReady"), Ins("Return")}

\* A program of StepsWide instructions, the last one any instruction.
NextWide ==
    \/ AddNewCode
    \/ AddNewPlugin
    \/ RunDirect
    \/ \E inst \in WideCore : AddInstruction(inst, StepsWide - 1)
    \/ \E inst \in AllInstructions :
          Len(trace) = StepsWide - 1 /\ AddInstruction(inst, StepsWide)
    \/ ExecuteNextInstruction(StepsWide)

SpecWide == Init /\ [][NextWide]_vars

\* ------------------------------------------------------------------ claims


\* The step is a call of execute_next_instruction.
IsCall == Len(trace') = Len(trace) + 1
Call == trace'[Len(trace')]
\* The call fetched an instruction and ran it at skip level 0.
Executed(e, op) == e.inst.op = op /\ e.skip = 0

CountOp(op, i, k) ==
    Cardinality({m \in (i + 1)..k : trace[m].inst.op = op})

\* Call j lies inside the block opened by the ExecuteIf of call i: between
\* the two, the same frame ran, and no EndConditionalBlock up to j closes
\* the block (each closes the innermost ExecuteIf still open).
InsideBlock(i, j) ==
    /\ i < j
    /\ \A k \in i..j : trace[k].frame = trace[i].frame
    /\ \A k \in (i + 1)..j :
          1 + CountOp("ExecuteIf", i, k) - CountOp("EndConditionalBlock", i, k) > 0

\* C1: when the condition of an ExecuteIf fails, no instruction before its
\* matching EndConditionalBlock takes effect, nested ExecuteIf /
\* EndConditionalBlock pairs included (these two only keep the nesting).
C1_SkippedBlockHasNoEffect ==
    \A i \in 1..Len(trace), j \in 1..Len(trace) :
        (/\ Executed(trace[i], "ExecuteIf")
         /\ trace[i].matched = "FALSE"
         /\ InsideBlock(i, j)
         /\ trace[j].inst.op \notin {"ExecuteIf", "EndConditionalBlock"})
        => ~trace[j].effect

\* C2: no frame's skip level is ever negative; EndConditionalBlock lowers
\* the skip level of the current frame by exactly 1 when it is above 0 and
\* changes nothing when it is 0.
C2_SkipLevelNeverNegative ==
    [][/\ \A f \in 1..Len(callstack') : callstack'[f].skip_level >= 0
       /\ (IsCall /\ Call.inst.op = "EndConditionalBlock") =>
            LET f == Call.frame
            IN /\ callstack[f].skip_level > 0 =>
                    callstack'[f].skip_level = callstack[f].skip_level - 1
               /\ callstack[f].skip_level = 0 => ~Call.effect]_vars

C2_Witness ==
    \E i \in 1..Len(trace), j \in 1..Len(trace) :
        /\ trace[i].inst.op = "EndConditionalBlock" /\ trace[i].skip > 0
        /\ trace[j].inst.op = "EndConditionalBlock" /\ trace[j].skip = 0
        /\ \E f \in 1..Len(callstack) : f > 1 /\ callstack[f].ready

\* The (frame, slot) pairs that hold the handle id.
SlotsHolding(id) ==
    {fa \in (1..Len(callstack)) \X (1..StackSize) :
        /\ fa[2] <= Len(callstack[fa[1]].stack)
        /\ IsSpecial(callstack[fa[1]].stack[fa[2]])
        /\ callstack[fa[1]].stack[fa[2]].v = id}

\* C3: in every reachable state, every slot of every frame that holds a
\* Text or List holds a handle that resolves to a live heap item.
C3_NoDanglingSlots ==
    \A f \in 1..Len(callstack) : \A a \in 1..Len(callstack[f].stack) :
        IsSpecial(callstack[f].stack[a]) =>
            get_ref(special_storage, callstack[f].stack[a].v) # 0

\* C4: in every reachable state, the reference count of each live heap item
\* is the number of frame slots, over all frames, that hold its handle.
C4_RefCountIsSlotCount ==
    \A i \in 1..Len(special_storage.items) :
        special_storage.items[i].ref_count =
            Cardinality(SlotsHolding(special_storage.items[i].item_id))

\* C5: a call of execute_next_instruction that fetches an instruction other
\* than RestoreLoopLabel leaves the program counter of the frame it fetched
\* from 1 above what it was, whether the instruction is executed, discarded
\* by skipping or fails (a frame the call removed has no counter left).
C5_PcAdvancesByOne ==
    [][(/\ IsCall
        /\ Call.inst.op \notin {"None", "RestoreLoopLabel"}
        /\ Call.frame <= Len(callstack'))
       => /\ callstack[Call.frame].program_counter = Call.pc
          /\ callstack'[Call.frame].program_counter = Call.pc + 1]_vars

\* A run in which one fetched instruction failed, one was discarded by
\* skipping and one was executed, the last call having advanced the counter.
C5_Witness ==
    /\ \E i \in 1..Len(trace) : trace[i].st = "Err" /\ trace[i].inst.op # "None"
    /\ \E i \in 1..Len(trace) :
          trace[i].skip > 0 /\ trace[i].inst.op # "EndConditionalBlock"
    /\ \E i \in 1..Len(trace) :
          trace[i].skip = 0 /\ trace[i].st = "Normal" /\ trace[i].effect
    /\ Last.inst.op \notin {"None", "RestoreLoopLabel"}
    /\ callstack[Last.frame].program_counter = Last.pc + 1

\* C6: a Return that is not skipped, run with exactly one frame on the call
\* stack, sets has_quit, returns Quit, and neither pops the frame nor changes
\* a slot.
C6_ReturnOfLastFrameQuits ==
    [][(/\ IsCall
        /\ Executed(Call, "Return")
        /\ Len(callstack) = 1)
       => /\ registers'.has_quit
          /\ Call.st = "Quit"
          /\ Len(callstack') = 1
          /\ callstack'[1].stack = callstack[1].stack
          /\ special_storage' = special_storage]_vars

\* The last frame ran Return while its slot 0 held a text and math_b
\* another value, on a VM that echoes return values.
C6_Witness ==
    /\ trace # <<>>
    /\ Executed(Last, "Return")
    /\ Last.st = "Quit"
    /\ Len(callstack) = 1
    /\ registers.is_interactive
    /\ IsSpecial(callstack[1].stack[1])
    /\ registers.math_b # callstack[1].stack[1]

\* What the write of val over old does to the reference counts.
WriteProtocol(ss, old, val) ==
    LET ss1 == IF IsSpecial(old) THEN decrement_ref(ss, old.v) ELSE ss
    IN IF IsSpecial(val) THEN increment_ref(ss1, val.v).ss ELSE ss1

\* C7: a Return that is not skipped, run with two or more frames on the call
\* stack, removes exactly the top frame, writes math_b into slot 0 of the new
\* top frame (the old value's item decremented, math_b's incremented) and
\* returns Returned.
C7_ReturnPopsWritesReturned ==
    [][(/\ IsCall
        /\ Executed(Call, "Return")
        /\ Len(callstack) >= 2)
       => LET n == Len(callstack) - 1
              val == registers.math_b
          IN /\ Len(callstack') = n
             /\ \A f \in 1..(n - 1) : callstack'[f].stack = callstack[f].stack
             /\ callstack'[n].stack = [callstack[n].stack EXCEPT ![1] = val]
             /\ special_storage' =
                   WriteProtocol(special_storage, callstack[n].stack[1], val)
             /\ Call.st = "Returned"]_vars

\* In the calls t: call i is a SetLastFrameReady that starts a callee (the
\* next call fetches from a frame above), and call j is the first Return
\* that callee runs, everything in between running in the callee or above.
CalleeReturns(t, i, j) ==
    /\ i < j
    /\ Executed(t[i], "SetLastFrameReady")
    /\ t[i + 1].frame > t[i].frame
    /\ Executed(t[j], "Return")
    /\ t[j].frame = t[i + 1].frame
    /\ \A k \in (i + 1)..j : t[k].frame >= t[i + 1].frame
    /\ \A k \in (i + 1)..(j - 1) :
          ~(Executed(t[k], "Return") /\ t[k].frame = t[i + 1].frame)

\* After the callee's Return the next instruction fetched is the caller's,
\* the one after its SetLastFrameReady.
ResumesCaller(t) ==
    \A i \in 1..Len(t), j \in 1..(Len(t) - 1) :
        (CalleeReturns(t, i, j) /\ t[j + 1].inst.op # "None") =>
            /\ t[j + 1].frame = t[i].frame
            /\ t[j + 1].pc = t[i].pc + 1

\* C8: calls are last in, first out.  After SetLastFrameReady makes the
\* frame pushed by MakeNewFrame(id) ready, the next instruction fetched is
\* instruction 0 of code[id]; after the callee runs Return, the next
\* instruction fetched is the one after the caller's SetLastFrameReady.
C8_CallsAreLifo ==
    [][IsCall =>
        /\ (/\ Executed(Call, "SetLastFrameReady")
            /\ ~callstack[Len(callstack)].ready)
           => /\ fetch(VM)'.frame = Len(callstack)
              /\ fetch(VM)'.pc = 0
              /\ get_current_id(VM)' = callstack[Len(callstack)].id
        /\ ResumesCaller(trace')]_vars

\* C9: ReadVarFrom(a) and WriteVarTo(a) address the last ready frame, the
\* one the instruction was fetched from, whatever frames that are not ready
\* lie above it.
C9_LocalsAreOfLastReadyFrame ==
    [][(IsCall /\ Call.skip = 0 /\ Call.st = "Normal") =>
        LET f == Call.frame
            a == Call.inst.a + 1
        IN /\ Call.inst.op = "WriteVarTo" =>
                /\ callstack'[f].stack[a] = registers.math_b
                /\ \A g \in 1..Len(callstack) :
                      g # f => callstack'[g].stack = callstack[g].stack
           /\ Call.inst.op = "ReadVarFrom" =>
                registers'.intermediate = callstack[f].stack[a]]_vars

\* What QueryListSize and IndexList (at index k) give in vm for the list
\* handle val.
SizeThrough(vm, val) ==
    run_QueryListSize([vm EXCEPT !.registers.intermediate = val])
IndexThrough(vm, val, k) ==
    run_IndexList([vm EXCEPT !.registers.intermediate = val,
                             !.registers.math_b = Integer(k)])

\* C10: lists are shared by handle.  After AddToListAtIndex has added math_b
\* to the list whose handle is in intermediate, QueryListSize and IndexList
\* through every frame slot that holds the handle give the new length and
\* the new element; no slot changes and no item is added to the heap (the
\* list is not copied).
C10_ListsSharedByHandle ==
    [][(IsCall /\ Executed(Call, "AddToListAtIndex") /\ Call.st = "Normal") =>
        LET h == registers.intermediate
            old == special_storage.items[get_ref(special_storage, h.v)].data.list
        IN /\ Len(special_storage'.items) = Len(special_storage.items)
           /\ special_storage'.next_item_id = special_storage.next_item_id
           /\ \A f \in 1..Len(callstack) :
                 /\ callstack'[f].stack = callstack[f].stack
                 /\ \A a \in 1..Len(callstack[f].stack) :
                       callstack[f].stack[a] = h =>
                         /\ SizeThrough(VM', callstack'[f].stack[a]) =
                               Ok([VM' EXCEPT !.registers.intermediate = h,
                                              !.registers.math_b =
                                                  Integer(Len(old) + 1)])
                         /\ \E k \in 0..Len(old) :
                               LET r == IndexThrough(VM', callstack'[f].stack[a], k)
                               IN /\ r.st = "Normal"
                                  /\ r.vm.registers.math_b = registers.math_b]_vars

\* An Integer was added to a list whose handle two slots hold.
C10_Witness ==
    /\ trace # <<>>
    /\ Executed(Last, "AddToListAtIndex")
    /\ Last.st = "Normal"
    /\ registers.math_b.t = "Integer"
    /\ Cardinality(SlotsHolding(registers.intermediate.v)) >= 2

\* C11: for all values x and y over one heap, compare(x, y) gives Equal if
\* and only if compare(y, x) gives Equal.
C11_EqualIsSymmetric ==
    (compare(special_storage, registers.math_a, registers.math_b, 0) = "Equal")
    <=> (compare(special_storage, registers.math_b, registers.math_a, 0) = "Equal")

\* Compare, SwapMath, Compare were run on two different lists of a null and
\* a list, and both comparisons gave Equal.
C11_Witness ==
    /\ Len(trace) = 3
    /\ trace[1].inst.op = "Compare"
    /\ trace[2].inst.op = "SwapMath"
    /\ trace[3].inst.op = "Compare"
    /\ registers.math_a = List(8)
    /\ registers.math_b = List(9)
    /\ callstack[1].last_comparision = "Equal"
    /\ compare(special_storage, List(9), List(8), 0) = "Equal"

\* val is a Text whose handle names a text item of ss.
IsLiveText(ss, val) ==
    /\ val.t = "Text"
    /\ get_data_ref(ss, val.v) # 0
    /\ ss.items[get_data_ref(ss, val.v)].data.kind = "Text"

TextOf(ss, val) == ss.items[get_data_ref(ss, val.v)].data.text

\* An Add is being executed on two live texts, left in math_a and right in
\* math_b.
AddsTexts ==
    /\ IsCall
    /\ Executed(Call, "Add")
    /\ IsLiveText(special_storage, registers.math_a)
    /\ IsLiveText(special_storage, registers.math_b)

\* C12 as stated: Add on two Texts, left = math_a and right = math_b, gives
\* the contents of left followed by those of right when first_operation is
\* clear and right followed by left when it is set, and clears the flag.
C12_LeftThenRightWhenClear ==
    [][AddsTexts =>
         /\ Call.st = "Normal"
         /\ IsLiveText(special_storage', registers'.math_b)
         /\ TextOf(special_storage', registers'.math_b) =
               IF registers.first_operation
               THEN TextOf(special_storage, registers.math_b)
                      \o TextOf(special_storage, registers.math_a)
               ELSE TextOf(special_storage, registers.math_a)
                      \o TextOf(special_storage, registers.math_b)
         /\ ~registers'.first_operation]_vars

\* C12 amended: Add on two Texts, left = math_a and right = math_b, gives
\* the contents of right followed by those of left when first_operation is
\* clear and left followed by right when it is set, and clears the flag.
C12_RightThenLeftWhenClear ==
    [][AddsTexts =>
         /\ Call.st = "Normal"
         /\ IsLiveText(special_storage', registers'.math_b)
         /\ TextOf(special_storage', registers'.math_b) =
               IF registers.first_operation
               THEN TextOf(special_storage, registers.math_a)
                      \o TextOf(special_storage, registers.math_b)
               ELSE TextOf(special_storage, registers.math_b)
                      \o TextOf(special_storage, registers.math_a)
         /\ ~registers'.first_operation]_vars

\* "hi" was pushed to math_a and " world" to math_b, and Add, with the flag
\* clear, has left " worldhi" in math_b.
C12_Witness ==
    /\ Len(trace) = 3
    /\ trace[1].inst = PushValMathA(RawText("hi"))
    /\ trace[2].inst = PushValMathB(RawText(" world"))
    /\ Executed(trace[3], "Add")
    /\ trace[3].st = "Normal"
    /\ IsLiveText(special_storage, registers.math_b)
    /\ TextOf(special_storage, registers.math_b) = " worldhi"
    /\ ~registers.first_operation

\* C13: with Text s in math_a and Text t in math_b, SetFirstExpressionOperation
\* and then Add leave in math_b a new Text handle, different from both
\* operands' and with ref count 0, whose contents are s followed by t; both
\* operand items are unchanged and first_operation is clear.
C13_FlaggedAddConcatenatesInOrder ==
    [][(/\ AddsTexts
        /\ trace # <<>>
        /\ Executed(Last, "SetFirstExpressionOperation")
        /\ Last.st = "Normal")
       => LET ss == special_storage
              a == registers.math_a
              b == registers.math_b
              res == registers'.math_b
              ai == get_data_ref(ss, a.v)
              bi == get_data_ref(ss, b.v)
          IN /\ Call.st = "Normal"
             /\ res.t = "Text"
             /\ res.v \notin {a.v, b.v}
             /\ get_data_ref(ss, res.v) = 0
             /\ IsLiveText(special_storage', res)
             /\ special_storage'.items[get_ref(special_storage', res.v)].ref_count = 0
             /\ TextOf(special_storage', res) = TextOf(ss, a) \o TextOf(ss, b)
             /\ get_data_ref(special_storage', a.v) # 0
             /\ get_data_ref(special_storage', b.v) # 0
             /\ special_storage'.items[get_data_ref(special_storage', a.v)] = ss.items[ai]
             /\ special_storage'.items[get_data_ref(special_storage', b.v)] = ss.items[bi]
             /\ registers'.math_a = a
             /\ ~registers'.first_operation]_vars

\* "hi" in math_a, " world" in math_b, SetFirstExpressionOperation, Add:
\* math_b names a third item, "hi world".
C13_Witness ==
    /\ Len(trace) = 4
    /\ trace[1].inst = PushValMathA(RawText("hi"))
    /\ trace[2].inst = PushValMathB(RawText(" world"))
    /\ Executed(trace[3], "SetFirstExpressionOperation")
    /\ Executed(trace[4], "Add")
    /\ trace[4].st = "Normal"
    /\ registers.math_b = Text(2)
    /\ TextOf(special_storage, registers.math_b) = "hi world"
    /\ TextOf(special_storage, registers.math_a) = "hi"
    /\ Len(special_storage.items) = 3

\* val is a List whose handle names a list item of ss.
IsLiveList(ss, val) ==
    /\ val.t = "List"
    /\ get_data_ref(ss, val.v) # 0
    /\ ss.items[get_data_ref(ss, val.v)].data.kind = "List"

ListOf(ss, val) == ss.items[get_data_ref(ss, val.v)].data.list

\* C14: Add with a List in math_a and a List in math_b succeeds and leaves
\* in math_b a new list handle whose contents are the elements of the left
\* list followed by those of the right list; both operand lists are
\* unchanged.
C14_AddConcatenatesLists ==
    [][(/\ IsCall
        /\ Executed(Call, "Add")
        /\ IsLiveList(special_storage, registers.math_a)
        /\ IsLiveList(special_storage, registers.math_b))
       => LET ss == special_storage
              a == registers.math_a
              b == registers.math_b
              res == registers'.math_b
          IN /\ Call.st = "Normal"
             /\ res.t = "List"
             /\ get_data_ref(ss, res.v) = 0
             /\ IsLiveList(special_storage', res)
             /\ ListOf(special_storage', res) = ListOf(ss, a) \o ListOf(ss, b)
             /\ IsLiveList(special_storage', a)
             /\ IsLiveList(special_storage', b)
             /\ ListOf(special_storage', a) = ListOf(ss, a)
             /\ ListOf(special_storage', b) = ListOf(ss, b)]_vars

\* C15: Add, Sub, Mul and Div with Null in math_a succeed and leave Null in
\* math_b, whatever math_b held.
C15_NullLeftGivesNull ==
    [][(/\ IsCall
        /\ Call.skip = 0
        /\ Call.inst.op \in {"Add", "Sub", "Mul", "Div"}
        /\ registers.math_a = Null)
       => (Call.st = "Normal" /\ registers'.math_b = Null)]_vars

\* C16: Div with an Integer in math_a and Integer 0 in math_b returns an
\* error, does not abort, and leaves math_b as it was; with another Integer
\* in math_b it leaves the quotient, truncated toward zero, in math_b.
C16_DivByZeroIsAnError ==
    [][(/\ IsCall
        /\ Executed(Call, "Div")
        /\ registers.math_a.t = "Integer"
        /\ registers.math_b.t = "Integer")
       => IF registers.math_b.v = 0
          THEN Call.st = "Err" /\ registers'.math_b = registers.math_b
          ELSE /\ Call.st = "Normal"
               /\ registers'.math_b =
                     Integer(TruncDiv(registers.math_a.v, registers.math_b.v))]_vars

\* A CallPlugin(a, b) is being executed whose address names a registered
\* plugin.
CallsPlugin ==
    /\ IsCall
    /\ Executed(Call, "CallPlugin")
    /\ Call.inst.a < Len(plugins)

\* What the plugin called gives back for the arguments on top of the stack.
PluginResult ==
    plugin_call(plugins[Call.inst.a + 1],
                [k \in 1..Call.inst.b |->
                   plugin_argument_stack[Len(plugin_argument_stack) + 1 - k]],
                VM)

\* C17: when the plugin called by CallPlugin returns Some(v), v is in slot 0
\* of the frame that executed the CallPlugin, also when a frame that is not
\* ready lies above that frame.
C17_PluginValueInCallerSlot ==
    [][(/\ CallsPlugin
        /\ Call.inst.b <= Len(plugin_argument_stack)
        /\ PluginResult.st = "Some")
       => callstack'[Call.frame].stack[1] = PluginResult.val]_vars

\* C18: CallPlugin(addr, num) with num at most the length of the argument
\* stack removes the num arguments pushed last and passes them last pushed
\* first (the plugin that returns its first argument returns the last one
\* pushed, the plugin that returns its last argument returns the one pushed
\* num pushes ago), and the older arguments stay; with num above the length
\* it fails and the argument stack is unchanged.
C18_ArgumentsAreLifo ==
    [][CallsPlugin =>
         LET stack == plugin_argument_stack
             num == Call.inst.b
             returned == callstack'[Len(callstack')].stack[1]
         IN IF num <= Len(stack)
            THEN /\ Call.st = "Normal"
                 /\ plugin_argument_stack' = SubSeq(stack, 1, Len(stack) - num)
                 /\ plugins[Call.inst.a + 1] = "first" /\ num > 0
                       => returned = stack[Len(stack)]
                 /\ plugins[Call.inst.a + 1] = "last" /\ num > 0
                       => returned = stack[Len(stack) - num + 1]
            ELSE Call.st = "Err" /\ plugin_argument_stack' = stack]_vars

\* 1, 1 and 2 were pushed; CallPlugin(2, 2) gave the plugin 2 and then 1: the
\* plugin returned its last argument, 1, and the first 1 pushed is left.
C18_Witness ==
    /\ Len(trace) = 6
    /\ trace[1].inst = PushValMathB(RawInteger(1))
    /\ trace[2].inst.op = "PushMathBPluginArgument"
    /\ trace[3].inst.op = "PushMathBPluginArgument"
    /\ trace[4].inst = PushValMathB(RawInteger(2))
    /\ trace[5].inst.op = "PushMathBPluginArgument"
    /\ trace[6].inst = InsAB("CallPlugin", 2, 2)
    /\ trace[6].st = "Normal"
    /\ plugin_argument_stack = <<Integer(1)>>
    /\ callstack[1].stack[1] = Integer(1)

\* C19: CallPlugin with an address that names no registered plugin, the
\* number of registered plugins or any greater one, returns an error and
\* leaves the argument stack and the frames as they were.
C19_UnregisteredAddressIsAnError ==
    [][(/\ IsCall
        /\ Executed(Call, "CallPlugin")
        /\ Call.inst.a >= Len(plugins))
       => /\ Call.st = "Err"
          /\ ~Call.effect
          /\ plugin_argument_stack' = plugin_argument_stack]_vars

PrintInstructions ==
    {"PrintMathB", "PrintMathBDebug", "PrintNewLine", "FlushStdout"}

\* C20 as stated: ReadInput with no input source fails with an error; a
\* print instruction with no output sink succeeds and changes nothing.
C20_ReadFailsPrintIsNoOp ==
    [][(IsCall /\ Call.skip = 0)
       => /\ (Call.inst.op = "ReadInput" /\ stdin = "none") => Call.st = "Err"
          /\ (Call.inst.op \in PrintInstructions /\ stdout = "none")
                => (Call.st = "Normal" /\ ~Call.effect)]_vars

\* C20 amended: ReadInput with no input source returns normally and changes
\* nothing; a print instruction with no output sink changes nothing, and
\* returns normally when it is PrintNewLine or FlushStdout or when math_b is
\* Null, a number or a Text whose handle names a heap item.
C20_ReadAndPrintAreNoOps ==
    [][(IsCall /\ Call.skip = 0)
       => /\ (Call.inst.op = "ReadInput" /\ stdin = "none")
                => (Call.st = "Normal" /\ ~Call.effect)
          /\ (Call.inst.op \in PrintInstructions /\ stdout = "none")
                => /\ ~Call.effect
                   /\ (\/ Call.inst.op \in {"PrintNewLine", "FlushStdout"}
                       \/ registers.math_b.t \in {"Null", "Integer", "Number"}
                       \/ IsLiveText(special_storage, registers.math_b))
                        => Call.st = "Normal"]_vars

\* With neither a sink nor a reader, a text was printed and a line was then
\* read: both instructions returned normally, and intermediate is still
\* Null.
C20_Witness ==
    /\ stdin = "none"
    /\ stdout = "none"
    /\ Len(trace) = 3
    /\ trace[1].inst = PushValMathB(RawText("a"))
    /\ Executed(trace[2], "PrintMathB")
    /\ trace[2].st = "Normal"
    /\ Executed(trace[3], "ReadInput")
    /\ trace[3].st = "Normal"
    /\ registers.intermediate = Null
    /\ Len(special_storage.items) = 1

\* The handles of the items of ss.
LiveHandles(ss) == {ss.items[i].item_id : i \in 1..Len(ss.items)}

\* C21: handles are issued in increasing order and never again: next_item_id
\* never decreases and is above every live handle, a handle that becomes live
\* is at least the next_item_id of before, hence above every handle issued
\* before, also after items have been removed, and no two live items share a
\* handle.
C21_HandlesIncreaseAndAreNotReused ==
    [][/\ special_storage'.next_item_id >= special_storage.next_item_id
       /\ \A h \in LiveHandles(special_storage') :
             /\ h < special_storage'.next_item_id
             /\ h \notin LiveHandles(special_storage)
                   => h >= special_storage.next_item_id
       /\ \A i, j \in 1..Len(special_storage'.items) :
             special_storage'.items[i].item_id = special_storage'.items[j].item_id
               => i = j]_vars

\* Item 0 was created, stored and released, and the text created after its
\* removal is item 1, not item 0 again.
C21_Witness ==
    /\ Len(trace) = 4
    /\ Executed(trace[3], "TryDecrementRefAt")
    /\ trace[4].inst = PushValMathB(RawText("a"))
    /\ LiveHandles(special_storage) = {1}
    /\ registers.math_b = Text(1)
    /\ special_storage.next_item_id = 2

\* C22: the status returned is Quit only for a Quit or a Return with one
\* frame on the call stack, Returned only for a Return with at least two
\* frames, Halt only for a Halt, each of them not skipped, and Normal for
\* every other instruction that succeeds; a Quit that is not skipped returns
\* Quit, and a Halt that is not skipped returns Halt and changes nothing, so
\* has_quit stays as it was.
C22_StatusTellsTheInstruction ==
    [][IsCall =>
         LET op == Call.inst.op
             run_at_level_0 == Call.skip = 0
         IN /\ Call.st \in {"Normal", "Quit", "Returned", "Halt", "Err", "Panic"}
            /\ Call.st = "Quit"
                  => /\ run_at_level_0
                     /\ op = "Quit" \/ (op = "Return" /\ Len(callstack) = 1)
            /\ Call.st = "Returned"
                  => run_at_level_0 /\ op = "Return" /\ Len(callstack) >= 2
            /\ Call.st = "Halt" => run_at_level_0 /\ op = "Halt"
            /\ (run_at_level_0 /\ op = "Quit") => Call.st = "Quit"
            /\ (run_at_level_0 /\ op = "Halt")
                  => /\ Call.st = "Halt"
                     /\ ~Call.effect
                     /\ registers'.has_quit = registers.has_quit]_vars

\* A Halt was run after a call and returned Halt with has_quit clear.
C22_Witness ==
    /\ Len(trace) = StepsWide
    /\ Executed(Last, "Halt")
    /\ Last.st = "Halt"
    /\ ~registers.has_quit
    /\ Len(callstack) = 2
    /\ \E k \in 1..(Len(trace) - 1) : trace[k].st = "Normal"

\* C23: an ExecuteIf run while the skip level of the current frame is above
\* 0 raises that skip level by exactly 1, whatever req and the last
\* comparison are.
C23_SkippedExecuteIfIsCounted ==
    [][(IsCall /\ Call.inst.op = "ExecuteIf" /\ Call.skip > 0)
       => /\ Len(callstack') >= Call.frame
          /\ callstack'[Call.frame].skip_level = Call.skip + 1]_vars

\* C24: at a skip level above 0 an instruction other than
\* EndConditionalBlock returns Normal and changes nothing but the program
\* counter of the current frame: registers (has_quit among them), heap,
\* plugin argument stack and every other field of every frame stay.
C24_SkippedInstructionChangesOnlyPc ==
    [][(/\ IsCall
        /\ Call.skip > 0
        /\ Call.inst.op \notin {"EndConditionalBlock", "None"})
       => /\ Call.st = "Normal"
          /\ registers' = registers
          /\ special_storage' = special_storage
          /\ plugin_argument_stack' = plugin_argument_stack
          /\ callstack' = [callstack EXCEPT
                             ![Call.frame].program_counter = Call.pc + 1]]_vars

\* A Return, Quit, Halt or MakeNewFrame was fetched at a skip level above 0:
\* it returned Normal, has_quit is clear, the skip level is what it was and
\* the program counter is one further.
C24_Witness ==
    /\ Len(trace) >= 2
    /\ Last.skip > 0
    /\ Last.inst.op \in {"Return", "Quit", "Halt", "MakeNewFrame"}
    /\ Last.st = "Normal"
    /\ ~registers.has_quit
    /\ callstack[Last.frame].skip_level = Last.skip
    /\ callstack[Last.frame].program_counter = Last.pc + 1

\* What the claim says of a request and a recorded comparison.
Satisfies(last, req) ==
    CASE req = "Equal" -> last = "Equal"
      [] req = "Less" -> last = "LessThan"
      [] req = "More" -> last = "MoreThan"
      [] req = "LessOrEqual" -> last \in {"LessThan", "Equal"}
      [] req = "MoreOrEqual" -> last \in {"MoreThan", "Equal"}

\* C25: ExecuteIf(req) at skip level 0 with a comparison recorded sets the
\* skip level to 1 exactly when the comparison does not satisfy req and
\* otherwise leaves it 0: Equal is satisfied by Equal only, Less by LessThan
\* only, More by MoreThan only, LessOrEqual by LessThan and Equal,
\* MoreOrEqual by MoreThan and Equal.
C25_ExecuteIfSkipsUnlessSatisfied ==
    [][(/\ IsCall
        /\ Executed(Call, "ExecuteIf")
        /\ Call.inst.req # "NotEqual"
        /\ callstack[Len(callstack)].last_comparision # "None")
       => /\ Call.st = "Normal"
          /\ callstack'[Call.frame].skip_level =
                IF Satisfies(callstack[Len(callstack)].last_comparision,
                             Call.inst.req)
                THEN 0 ELSE 1]_vars

\* Compare found 1 equal to 1; ExecuteIf(LessOrEqual) left the skip level 0.
C25_Witness ==
    /\ Len(trace) = 2
    /\ Executed(trace[1], "Compare")
    /\ trace[2].inst = ExecuteIf("LessOrEqual")
    /\ trace[2].st = "Normal"
    /\ registers.math_a = Integer(1)
    /\ registers.math_b = Number(1)
    /\ callstack[1].last_comparision = "Equal"
    /\ callstack[1].skip_level = 0

\* C26: a Compare that succeeds stores its result in last_comparision of
\* the top frame of the call stack, ready or not, and leaves last_comparision
\* of every other frame; an ExecuteIf at skip level 0 decides by the
\* comparison of that top frame, and fails when it has none.
C26_ComparisonIsOfTopFrame ==
    [][IsCall =>
         LET top == Len(callstack)
             c == callstack[top].last_comparision
             matched == IF Call.inst.req = "NotEqual" THEN c # "Equal"
                        ELSE Satisfies(c, Call.inst.req)
         IN /\ (Executed(Call, "Compare") /\ Call.st = "Normal")
                 => /\ Len(callstack') = top
                    /\ callstack'[top].last_comparision =
                          compare(special_storage, registers.math_a,
                                  registers.math_b, 0)
                    /\ callstack'[top].last_comparision
                          \in {"Equal", "NotEqual", "LessThan", "MoreThan"}
                    /\ \A f \in 1..(top - 1) :
                          callstack'[f].last_comparision =
                            callstack[f].last_comparision
            /\ Executed(Call, "ExecuteIf")
                 => IF c = "None" THEN Call.st = "Err"
                    ELSE /\ Call.st = "Normal"
                         /\ callstack'[Call.frame].skip_level =
                               IF matched THEN 0 ELSE 1]_vars

\* The global frame pushed a frame and ran Compare before making it ready:
\* the result is in the pushed frame and the global frame has none.
C26_Witness ==
    /\ trace # <<>>
    /\ Executed(Last, "Compare")
    /\ Last.st = "Normal"
    /\ Last.frame = 1
    /\ Len(callstack) = 2
    /\ ~callstack[2].ready
    /\ callstack[2].last_comparision = "Equal"
    /\ callstack[1].last_comparision = "None"

\* C27: while the frame pushed by MakeNewFrame has not been made ready, an
\* instruction other than SetLastFrameReady leaves it on the call stack, not
\* ready and with program counter 0; the instruction is fetched from the
\* caller, the last ready frame, and only the caller's program counter
\* advances; WriteVarTo(a) puts math_b in slot a of the caller, and
\* WriteVarToLast(a) puts math_b in slot a of the pushed frame and changes
\* no slot of another frame.
C27_PendingFrameReceivesArguments ==
    [][(/\ IsCall
        /\ Len(callstack) >= 2
        /\ ~callstack[Len(callstack)].ready
        /\ Call.skip = 0
        /\ Call.inst.op \notin {"SetLastFrameReady", "None"})
       => LET top == Len(callstack)
              caller == Call.frame
              a == Call.inst.a + 1
          IN /\ Len(callstack') >= top
             /\ ~callstack'[top].ready
             /\ callstack'[top].program_counter = 0
             /\ caller = get_last_ready_ref(VM)
             /\ \A f \in (1..top) \ {caller} :
                   callstack'[f].program_counter = callstack[f].program_counter
             /\ (Call.inst.op = "WriteVarTo" /\ Call.st = "Normal")
                   => /\ callstack'[caller].stack[a] = registers.math_b
                      /\ callstack'[top].stack = callstack[top].stack
             /\ (Call.inst.op = "WriteVarToLast" /\ Call.st = "Normal")
                   => /\ callstack'[top].stack[a] = registers.math_b
                      /\ \A f \in 1..(top - 1) :
                            callstack'[f].stack = callstack[f].stack]_vars

\* The call is one of the slot writes, and succeeded.
SlotWritten ==
    /\ IsCall
    /\ Call.skip = 0
    /\ \/ /\ Call.inst.op \in {"WriteVarTo", "WriteGlobalVarTo", "WriteVarToLast"}
          /\ Call.st = "Normal"
       \/ /\ Call.inst.op = "Return"
          /\ Call.st = "Returned"
       \/ /\ Call.inst.op = "CallPlugin"
          /\ Call.st = "Normal"
          /\ PluginResult.st = "Some"

\* The frame (position in callstack), slot address and incoming value of the
\* slot write of the call.
SlotWrite ==
    CASE Call.inst.op = "WriteVarTo" ->
           [frame |-> get_last_ready_index(VM), a |-> Call.inst.a,
            val |-> registers.math_b]
      [] Call.inst.op = "WriteGlobalVarTo" ->
           [frame |-> 1, a |-> Call.inst.a, val |-> registers.math_b]
      [] Call.inst.op = "WriteVarToLast" ->
           [frame |-> Len(callstack), a |-> Call.inst.a,
            val |-> registers.math_b]
      [] Call.inst.op = "Return" ->
           [frame |-> Len(callstack) - 1, a |-> 0, val |-> registers.math_b]
      [] Call.inst.op = "CallPlugin" ->
           [frame |-> Len(callstack), a |-> 0, val |-> PluginResult.val]

\* The reference count of the item with handle h in ss, -1 when ss has none.
RefCount(ss, h) ==
    IF get_ref(ss, h) = 0 THEN -1 ELSE ss.items[get_ref(ss, h)].ref_count

\* C28: every successful slot write (WriteVarTo, WriteGlobalVarTo,
\* WriteVarToLast, the slot-0 write of Return and of CallPlugin) leaves the
\* incoming value in the slot, takes one reference from the item of the
\* slot's previous value when that is a Text or List (the item is removed
\* when its count was 1 or less), gives one reference to the item of the
\* incoming value when that is a Text or List, and leaves every other item
\* with the count and the data it had; no item appears.
C28_SlotWriteMovesOneReference ==
    [][SlotWritten =>
         LET w == SlotWrite
             old == callstack[w.frame].stack[w.a + 1]
             dec(h) == IF IsSpecial(old) /\ old.v = h THEN 1 ELSE 0
             inc(h) == IF IsSpecial(w.val) /\ w.val.v = h THEN 1 ELSE 0
         IN /\ callstack'[w.frame].stack[w.a + 1] = w.val
            /\ special_storage'.next_item_id = special_storage.next_item_id
            /\ \A h \in 0..(special_storage.next_item_id - 1) :
                  LET c == RefCount(special_storage, h)
                  IN IF c = -1 \/ (dec(h) = 1 /\ c <= 1)
                     THEN RefCount(special_storage', h) = -1
                     ELSE /\ RefCount(special_storage', h) = c - dec(h) + inc(h)
                          /\ special_storage'.items[get_ref(special_storage', h)].data
                               = special_storage.items[get_ref(special_storage, h)].data]_vars

\* An integer was written over a text that two slots held: the text is live
\* with one reference left.
C28_Witness ==
    /\ Len(trace) = 5
    /\ Executed(trace[2], "WriteVarTo")
    /\ Executed(trace[3], "WriteGlobalVarTo")
    /\ trace[4].inst = PushValMathB(RawInteger(1))
    /\ Executed(Last, "WriteVarToLast")
    /\ Last.st = "Normal"
    /\ callstack[1].stack[1] = Integer(1)
    /\ callstack[1].stack[2] = Text(0)
    /\ RefCount(special_storage, 0) = 1

\* C29: decrement_ref(h) never returns an error; for a handle no item has it
\* leaves the storage as it is; for the handle of an item with reference
\* count 1 or less (a fresh item with count 0 included) it removes that item
\* and no other; otherwise it lowers the count of that item by exactly 1;
\* every other item stays, in its place in the order and with its count and
\* data.
C29_DecrementRefRemovesAtOne ==
    [][(IsCall /\ Call.op = "decrement_ref") =>
         LET h == Call.n
             items == special_storage.items
             Others(ss) == SelectSeq(ss.items, LAMBDA e : e.item_id # h)
         IN /\ Call.st = "Ok"
            /\ special_storage'.next_item_id = special_storage.next_item_id
            /\ Others(special_storage') = Others(special_storage)
            /\ IF RefCount(special_storage, h) = -1
               THEN special_storage' = special_storage
               ELSE IF RefCount(special_storage, h) <= 1
               THEN /\ RefCount(special_storage', h) = -1
                    /\ Len(special_storage'.items) = Len(items) - 1
               ELSE /\ RefCount(special_storage', h)
                         = RefCount(special_storage, h) - 1
                    /\ Len(special_storage'.items) = Len(items)]_vars

\* Of two items added with counts 0 and 2, the first was removed by one
\* decrement, a second decrement of its handle changed nothing, and the
\* other was lowered to 1 and then removed.
C29_Witness ==
    /\ Len(trace) = 6
    /\ trace[1] = [op |-> "add", n |-> 0, st |-> "Ok"]
    /\ trace[2] = [op |-> "add", n |-> 2, st |-> "Ok"]
    /\ \A k \in 3..6 : trace[k].op = "decrement_ref"
    /\ <<trace[3].n, trace[4].n, trace[5].n, trace[6].n>> = <<0, 0, 1, 1>>
    /\ special_storage.items = <<>>
    /\ special_storage.next_item_id = 2

\* Every RegisterIncrementOnRestore of the program c is the instruction
\* immediately following an AddLoopLabel.
RegistrationsFollowAddLoopLabel(c) ==
    \A f \in 1..Len(c) : \A q \in 1..Len(c[f]) :
        c[f][q].op = "RegisterIncrementOnRestore"
          => q > 1 /\ c[f][q - 1].op = "AddLoopLabel"

\* C30: in a program whose RegisterIncrementOnRestore instructions each
\* immediately follow an AddLoopLabel, the registration is executed only as
\* the call right after its AddLoopLabel (once per loop entry); a
\* RestoreLoopLabel on a registered label sets the pc to the label's
\* start_pc, which is the address after the RegisterIncrementOnRestore that
\* follows the AddLoopLabel; and a registered label keeps its start_pc, index
\* address and stepping for as long as it is on the label stack.
C30_RestoreSkipsTheRegistration ==
    [][(IsCall /\ RegistrationsFollowAddLoopLabel(code')) =>
         /\ Executed(Call, "RegisterIncrementOnRestore")
              => /\ trace # <<>>
                 /\ Executed(Last, "AddLoopLabel")
                 /\ Last.frame = Call.frame
                 /\ Last.pc + 1 = Call.pc
                 /\ Call.st = "Normal"
         /\ \A f \in 1..Len(callstack) :
               LET ls == callstack[f].label_stack
               IN /\ (/\ Executed(Call, "RestoreLoopLabel")
                      /\ f = Call.frame
                      /\ ls # <<>>
                      /\ ls[Len(ls)].has_index)
                     => LET l == ls[Len(ls)]
                            c == code[callstack[f].id + 1]
                        IN /\ callstack'[f].program_counter = l.start_pc
                           /\ l.start_pc >= 2
                           /\ c[l.start_pc].op = "RegisterIncrementOnRestore"
                           /\ c[l.start_pc].a = l.index_address
                           /\ c[l.start_pc - 1].op = "AddLoopLabel"
                  /\ f <= Len(callstack')
                     => \A k \in 1..Len(ls) :
                           (ls[k].has_index
                            /\ k <= Len(callstack'[f].label_stack))
                             => callstack'[f].label_stack[k] = ls[k]]_vars

\* A loop opened at address 2 with its registration at address 3 was
\* restored twice: both times the pc went to address 4, the RestoreLoopLabel
\* itself, and the label is as the registration left it.
C30_Witness ==
    /\ Len(trace) = 6
    /\ Executed(trace[3], "AddLoopLabel") /\ trace[3].pc = 2
    /\ Executed(trace[4], "RegisterIncrementOnRestore") /\ trace[4].pc = 3
    /\ Executed(trace[5], "RestoreLoopLabel") /\ trace[5].pc = 4
    /\ Executed(trace[6], "RestoreLoopLabel") /\ trace[6].pc = 4
    /\ trace[6].st = "Normal"
    /\ callstack[1].program_counter = 4
    /\ callstack[1].label_stack =
          <<[start_pc |-> 4, has_index |-> TRUE, index_address |-> 0,
             stepping |-> Integer(1)]>>
    /\ callstack[1].stack[1] = Integer(3)

\* C31: a RestoreLoopLabel that is not skipped, run by a frame with a label
\* on its label stack, sets that frame's pc to the top label's start_pc and
\* leaves the label stack as it is; when the label has an index address and
\* both the slot at that address of that frame and the stepping are Integers,
\* the slot becomes their sum and nothing else of the frame's slots changes;
\* when the label has no index address no slot of any frame changes.
C31_RestoreJumpsAndSteps ==
    [][(/\ IsCall
        /\ Executed(Call, "RestoreLoopLabel")
        /\ callstack[Call.frame].label_stack # <<>>)
       => LET f == Call.frame
              ls == callstack[f].label_stack
              l == ls[Len(ls)]
              stack == callstack[f].stack
          IN /\ callstack'[f].program_counter = l.start_pc
             /\ callstack'[f].label_stack = ls
             /\ (/\ l.has_index
                 /\ l.index_address < Len(stack)
                 /\ stack[l.index_address + 1].t = "Integer"
                 /\ l.stepping.t = "Integer")
                => callstack'[f].stack =
                      [stack EXCEPT ![l.index_address + 1] =
                           Integer(@.v + l.stepping.v)]
             /\ ~l.has_index
                => /\ Call.st = "Normal"
                   /\ \A g \in 1..Len(callstack) :
                         callstack'[g].stack = callstack[g].stack]_vars

\* C32: the loop labels of a frame are a stack.  AddLoopLabel appends a
\* label without index address whose start_pc is the address of the next
\* instruction; RestoreLoopLabel jumps to the start_pc of the top label and
\* changes no label; RegisterIncrementOnRestore changes the top label only;
\* PopLoopLabel removes the top label only, leaving the labels below as they
\* were; RestoreLoopLabel and PopLoopLabel on an empty label stack return an
\* error and change no label; the label stacks of the other frames stay.
C32_LoopLabelsAreLifo ==
    [][(/\ IsCall
        /\ Call.skip = 0
        /\ Call.inst.op \in {"AddLoopLabel", "RestoreLoopLabel",
                             "RegisterIncrementOnRestore", "PopLoopLabel"})
       => LET f == Call.frame
              ls == callstack[f].label_stack
              ls2 == callstack'[f].label_stack
              n == Len(ls)
          IN /\ Len(callstack') = Len(callstack)
             /\ \A g \in 1..Len(callstack) :
                   g # f => callstack'[g].label_stack = callstack[g].label_stack
             /\ Call.inst.op = "AddLoopLabel"
                => /\ Len(ls2) = n + 1
                   /\ SubSeq(ls2, 1, n) = ls
                   /\ ls2[n + 1].start_pc = Call.pc + 1
                   /\ ~ls2[n + 1].has_index
             /\ Call.inst.op = "RestoreLoopLabel"
                => /\ ls2 = ls
                   /\ IF n = 0 THEN Call.st = "Err"
                      ELSE callstack'[f].program_counter = ls[n].start_pc
             /\ Call.inst.op = "RegisterIncrementOnRestore"
                => /\ Len(ls2) = n
                   /\ \A k \in 1..(n - 1) : ls2[k] = ls[k]
                   /\ n > 0 => /\ ls2[n].has_index
                               /\ ls2[n].index_address = Call.inst.a
                               /\ ls2[n].stepping = registers.math_b
             /\ Call.inst.op = "PopLoopLabel"
                => IF n = 0 THEN Call.st = "Err" /\ ls2 = ls
                   ELSE Call.st = "Normal" /\ ls2 = SubSeq(ls, 1, n - 1)]_vars

\* A loop was opened inside a registered loop and closed again, and the
\* RestoreLoopLabel that followed went to the start of the enclosing loop,
\* whose label is the only one left and as its registration left it.
C32_Witness ==
    /\ Len(trace) = 5
    /\ Executed(trace[1], "AddLoopLabel")
    /\ Executed(trace[2], "RegisterIncrementOnRestore")
    /\ Executed(trace[3], "AddLoopLabel")
    /\ Executed(trace[4], "PopLoopLabel")
    /\ Executed(trace[5], "RestoreLoopLabel")
    /\ callstack[1].program_counter = 2
    /\ Len(callstack[1].label_stack) = 1
    /\ callstack[1].label_stack[1].start_pc = 2
    /\ callstack[1].label_stack[1].has_index

\* The list of the handle in intermediate, in the storage ss.
ListInIntermediate(ss) == ss.items[get_ref(ss, registers.intermediate.v)].data.list

\* C33: AddToListAtIndex on the list in intermediate with value math_b makes
\* the list longer by exactly 1: with secondary Null the value is appended;
\* with secondary Integer(i) and i < len the value is at position i of the new
\* list, the elements before it in place and the later ones moved right by
\* one; with i >= len the value is appended.
C33_AddToListAtIndexInsertsOrAppends ==
    [][(/\ IsCall
        /\ Executed(Call, "AddToListAtIndex")
        /\ registers.intermediate.t = "List"
        /\ get_ref(special_storage, registers.intermediate.v) # 0
        /\ registers.secondary.t \in {"Null", "Integer"})
       => LET old == ListInIntermediate(special_storage)
              new == ListInIntermediate(special_storage')
              i == registers.secondary.v
          IN /\ Call.st = "Normal"
             /\ Len(new) = Len(old) + 1
             /\ IF registers.secondary.t = "Integer" /\ i < Len(old)
                THEN /\ i >= 0
                     /\ new[i + 1] = registers.math_b
                     /\ \A k \in 1..Len(old) :
                           old[k] = new[IF k <= i THEN k ELSE k + 1]
                ELSE new = Append(old, registers.math_b)]_vars

\* C34: IndexList and RemoveFromListAtIndex with Integer(i) in math_b and a
\* list of length len in intermediate return an error when i < 0 or i >= len,
\* and then the storage and the registers are as before; when 0 <= i < len,
\* IndexList puts element i in math_b and leaves the storage, and
\* RemoveFromListAtIndex leaves the list without its element i, the other
\* elements in their order, and math_b as it was.
C34_ListIndexIsChecked ==
    [][(/\ IsCall
        /\ Call.skip = 0
        /\ Call.inst.op \in {"IndexList", "RemoveFromListAtIndex"}
        /\ registers.math_b.t = "Integer"
        /\ registers.intermediate.t = "List"
        /\ get_ref(special_storage, registers.intermediate.v) # 0)
       => LET old == ListInIntermediate(special_storage)
              new == ListInIntermediate(special_storage')
              i == registers.math_b.v
          IN IF i < 0 \/ i >= Len(old)
             THEN /\ Call.st = "Err"
                  /\ special_storage' = special_storage
                  /\ registers' = registers
             ELSE /\ Call.st = "Normal"
                  /\ Call.inst.op = "IndexList"
                     => /\ registers'.math_b = old[i + 1]
                        /\ special_storage' = special_storage
                  /\ Call.inst.op = "RemoveFromListAtIndex"
                     => /\ registers' = registers
                        /\ Len(new) = Len(old) - 1
                        /\ \A k \in 1..Len(new) :
                              new[k] = old[IF k <= i THEN k ELSE k + 1]
                        /\ Len(special_storage'.items) = Len(special_storage.items)]_vars

\* Element 0 of the list [10, 20] was removed with index 0, IndexList with
\* that index then gave the element that moved down, 20, and a second
\* IndexList, with index 20, failed and left math_b and the list.
C34_Witness ==
    /\ Len(trace) = 3
    /\ Executed(trace[1], "RemoveFromListAtIndex") /\ trace[1].st = "Normal"
    /\ Executed(trace[2], "IndexList") /\ trace[2].st = "Normal"
    /\ Executed(trace[3], "IndexList") /\ trace[3].st = "Err"
    /\ registers.math_b = Integer(20)
    /\ ListInIntermediate(special_storage) = <<Integer(20)>>

\* C35: a WriteVarTo(a) that writes back the Text or List the slot already
\* holds (math_b is the slot's own value, as after ReadVarFrom(a);
\* PushIntermediateToB), while the slot is the only owner of the item
\* (reference count 1), returns Normal and leaves the item live with
\* reference count 1 and the slot as it was.
C35_SelfWriteKeepsTheItem ==
    [][(/\ IsCall
        /\ Executed(Call, "WriteVarTo")
        /\ get_last_ready_index(VM) # 0
        /\ Call.inst.a < Len(callstack[get_last_ready_index(VM)].stack)
        /\ IsSpecial(registers.math_b)
        /\ callstack[get_last_ready_index(VM)].stack[Call.inst.a + 1]
              = registers.math_b
        /\ RefCount(special_storage, registers.math_b.v) = 1)
       => /\ Call.st = "Normal"
          /\ RefCount(special_storage', registers.math_b.v) = 1
          /\ callstack'[get_last_ready_index(VM)].stack[Call.inst.a + 1]
                = registers.math_b]_vars

\* C36: a call stack that holds a frame never becomes empty: the only
\* instruction that removes a frame is a Return that is not skipped, it
\* removes one frame and only when there were at least two, so the bottom
\* frame stays; and once the bottom frame is ready it stays ready and there
\* is a last ready frame for the next execute_next_instruction.
C36_CallStackNeverEmpties ==
    [][/\ callstack # <<>> => callstack' # <<>>
       /\ Len(callstack') < Len(callstack)
          => /\ IsCall
             /\ Executed(Call, "Return")
             /\ Len(callstack) >= 2
             /\ Len(callstack') = Len(callstack) - 1
       /\ (callstack # <<>> /\ callstack[1].ready)
          => /\ callstack'[1].ready
             /\ callstack'[1].id = callstack[1].id
             /\ get_last_ready_ref(VM') # 0]_vars

\* A callee returned to the global frame, and the global frame then ran
\* Return itself: it is still on the call stack, ready.
C36_Witness ==
    /\ Len(trace) = 4
    /\ Executed(trace[3], "Return") /\ trace[3].st = "Returned"
    /\ Executed(trace[4], "Return") /\ trace[4].st = "Quit"
    /\ trace[4].frame = 1
    /\ Len(callstack) = 1
    /\ callstack[1].ready

\* C37: after the Return of a callee (the top frame of the call stack runs
\* it, with a frame below) that gave Returned with the value v in math_b, a
\* ReadVarFrom(0) run next, by the frame that resumes, succeeds and reads v:
\* the slot Return wrote is slot 0 of the frame ReadVarFrom(0) reads, also
\* when the frame below the callee is a pushed frame that is not ready.
C37_ReturnValueIsReadFromSlotZero ==
    [][(/\ IsCall
        /\ Executed(Call, "Return")
        /\ Call.frame = Len(callstack)
        /\ Call.st = "Returned")
       => LET r == run(VM', InsA("ReadVarFrom", 0))
          IN /\ r.st = "Normal"
             /\ r.vm.registers.intermediate = registers.math_b]_vars

\* C38: in every reachable state, every Text or List that is an element of
\* the list of a live item is the handle of a live item.
C38_ListElementsAreLive ==
    \A i \in 1..Len(special_storage.items) :
        special_storage.items[i].data.kind = "List"
          => \A k \in 1..Len(special_storage.items[i].data.list) :
                IsSpecial(special_storage.items[i].data.list[k])
                  => get_ref(special_storage,
                             special_storage.items[i].data.list[k].v) # 0

\* What tells the frames of a call stack apart: function, ready flag and
\* program counter of each.
FramesOf(cs) ==
    [g \in 1..Len(cs) |->
        [id |-> cs[g].id, ready |-> cs[g].ready, pc |-> cs[g].program_counter]]

\* C39: a Return that is not skipped and is run with at least two frames on
\* the call stack removes the frame that ran it, the last ready frame, and
\* no other: the frames below and above it stay, also when a pushed frame
\* that is not ready lies above it.
C39_ReturnRemovesTheExecutingFrame ==
    [][(/\ IsCall
        /\ Executed(Call, "Return")
        /\ Len(callstack) >= 2)
       => FramesOf(callstack') =
             [g \in 1..(Len(callstack) - 1) |->
                 FramesOf(callstack)[IF g < Call.frame THEN g ELSE g + 1]]]_vars

\* The fields of a frame that belong to its own control flow.
ControlOf(frame) ==
    [pc |-> frame.program_counter, skip_level |-> frame.skip_level,
     label_stack |-> frame.label_stack,
     last_comparision |-> frame.last_comparision]

\* C40: a call of execute_next_instruction, whatever the instruction and
\* whether it is skipped or fails, leaves every frame below the frame that
\* runs it on the call stack, with its program counter, skip level, label
\* stack and last comparison as they were; and when a caller is the current
\* frame again right after the first Return of the callee it started, every
\* call in between having run in the callee or above, its program counter is
\* the one after its SetLastFrameReady and its skip level the one it had
\* then.
C40_CalleeLeavesCallerControl ==
    [][IsCall =>
         /\ \A g \in 1..(Call.frame - 1) :
               /\ g <= Len(callstack')
               /\ ControlOf(callstack'[g]) = ControlOf(callstack[g])
         /\ \A i \in 1..Len(trace) :
               (/\ CalleeReturns(trace', i, Len(trace'))
                /\ get_last_ready_ref(VM') = trace[i].frame)
               => /\ callstack'[trace[i].frame].program_counter = trace[i].pc + 1
                  /\ callstack'[trace[i].frame].skip_level = trace[i].skip]_vars

\* The callee ran Compare and a failing ExecuteIf, which left it a
\* comparison and a skip level, and the global frame below it has neither.
C40_Witness ==
    /\ Len(trace) = 4
    /\ Executed(trace[2], "SetLastFrameReady")
    /\ Executed(trace[3], "Compare") /\ trace[3].frame = 2
    /\ Executed(trace[4], "ExecuteIf") /\ trace[4].frame = 2
    /\ Len(callstack) = 2
    /\ callstack[2].skip_level = 1
    /\ callstack[2].last_comparision = "Equal"
    /\ callstack[1].skip_level = 0
    /\ callstack[1].last_comparision = "None"
    /\ callstack[1].program_counter = 2

====
